---- MODULE Spec2Model ----
(***************************************************************************)
(* FinStock: moving-average ledger replay (processTransaction), the        *)
(* aggregate recomputation around it (recomputeAggregates and the          *)
(* add/update/delete mutations of server/db.ts) and their persistence in   *)
(* the stockAggregates table.                                              *)
(***************************************************************************)
EXTENDS Integers, Sequences, FiniteSets, TLC

(***************************************************************************)
(* Bounds of the model.                                                    *)
(***************************************************************************)
MaxSteps == 3
MaxTxns == 2
MaxDate == 2
MaxStocks == 2
MaxTwinTxns == 5
NumProcs == 2
MaxReportTxns == 4

(***************************************************************************)
(* Program constants.                                                      *)
(***************************************************************************)
\* decimal.js default configuration: 20 significant digits, ROUND_HALF_UP
DecimalPrecision == 20
\* numeric(18, 8): totalShares, avgCost
ShareScale == 8
\* numeric(18, 2): totalInvested, realizedProfit
MoneyScale == 2

(***************************************************************************)
(* Naturals of arbitrary size: sequences of decimal digits, most           *)
(* significant first, without leading zeros (<<>> is 0).                   *)
(***************************************************************************)
Zeros(n) == [i \in 1..n |-> 0]

RECURSIVE StripLead(_)
StripLead(s) ==
  IF s = <<>> THEN <<>>
  ELSE IF Head(s) = 0 THEN StripLead(Tail(s)) ELSE s

RECURSIVE TrailingZeros(_)
TrailingZeros(s) ==
  IF s = <<>> THEN 0
  ELSE IF s[Len(s)] = 0 THEN 1 + TrailingZeros(SubSeq(s, 1, Len(s) - 1)) ELSE 0

PadLeft(s, n) == IF Len(s) >= n THEN s ELSE Zeros(n - Len(s)) \o s

RECURSIVE NatCmpAux(_, _, _)
NatCmpAux(a, b, i) ==
  IF i > Len(a) THEN 0
  ELSE IF a[i] < b[i] THEN -1
  ELSE IF a[i] > b[i] THEN 1
  ELSE NatCmpAux(a, b, i + 1)

\* -1, 0, 1 as a < b, a = b, a > b
NatCmp(a, b) ==
  IF Len(a) < Len(b) THEN -1
  ELSE IF Len(a) > Len(b) THEN 1
  ELSE NatCmpAux(a, b, 1)

\* <<carry out, digits i..Len(a)>> of a + b, a and b of equal length
RECURSIVE NatAddAux(_, _, _)
NatAddAux(a, b, i) ==
  IF i > Len(a) THEN <<0>>
  ELSE LET r == NatAddAux(a, b, i + 1)
           s == a[i] + b[i] + r[1]
       IN  <<s \div 10, s % 10>> \o Tail(r)

NatAdd(a, b) ==
  LET n == IF Len(a) > Len(b) THEN Len(a) ELSE Len(b)
  IN  StripLead(NatAddAux(PadLeft(a, n), PadLeft(b, n), 1))

\* <<borrow out, digits i..Len(a)>> of a - b, a and b of equal length
RECURSIVE NatSubAux(_, _, _)
NatSubAux(a, b, i) ==
  IF i > Len(a) THEN <<0>>
  ELSE LET r == NatSubAux(a, b, i + 1)
           s == a[i] - b[i] - r[1]
       IN  (IF s < 0 THEN <<1, s + 10>> ELSE <<0, s>>) \o Tail(r)

\* a - b for a >= b
NatSub(a, b) ==
  LET n == Len(a)
  IN  StripLead(Tail(NatSubAux(a, PadLeft(b, n), 1)))

\* the sum of a[i] * b[k + 1 - i] over the i from lo to hi
RECURSIVE ColumnSum(_, _, _, _, _)
ColumnSum(a, b, k, lo, hi) ==
  IF lo > hi THEN 0 ELSE a[lo] * b[k + 1 - lo] + ColumnSum(a, b, k, lo + 1, hi)

\* <<carry out, digits i..Len(cols)>> of the columns cols
RECURSIVE CarryAux(_, _)
CarryAux(cols, i) ==
  IF i > Len(cols) THEN <<0>>
  ELSE LET r == CarryAux(cols, i + 1)
           s == cols[i] + r[1]
       IN  <<s \div 10, s % 10>> \o Tail(r)

RECURSIVE NatOfInt(_)
NatOfInt(n) == IF n = 0 THEN <<>> ELSE Append(NatOfInt(n \div 10), n % 10)

\* schoolbook multiplication: the column sums, then the carries
NatMul(a, b) ==
  IF a = <<>> \/ b = <<>> THEN <<>>
  ELSE LET la   == Len(a)
           lb   == Len(b)
           cols == [k \in 1..(la + lb - 1) |->
                     ColumnSum(a, b, k,
                               IF k + 1 - lb > 1 THEN k + 1 - lb ELSE 1,
                               IF k < la THEN k ELSE la)]
           r    == CarryAux(cols, 1)
       IN  StripLead(NatOfInt(r[1]) \o Tail(r))

\* the largest k in 0..9 with k * b <= r, and r - k * b
RECURSIVE QuotDigit(_, _, _)
QuotDigit(r, b, k) ==
  IF NatCmp(r, b) < 0 THEN <<k, r>> ELSE QuotDigit(NatSub(r, b), b, k + 1)

\* long division: the quotient of n by b, b # 0
RECURSIVE NatDivAux(_, _, _, _, _)
NatDivAux(n, b, i, q, r) ==
  IF i > Len(n) THEN StripLead(q)
  ELSE LET qd == QuotDigit(StripLead(Append(r, n[i])), b, 0)
       IN  NatDivAux(n, b, i + 1, Append(q, qd[1]), qd[2])

RECURSIVE IntOfNat(_, _, _)
IntOfNat(a, i, acc) == IF i > Len(a) THEN acc ELSE IntOfNat(a, i + 1, acc * 10 + a[i])

\* the same long division for a divisor of at most 8 digits, on machine integers
RECURSIVE NatDivSmall(_, _, _, _, _)
NatDivSmall(n, b, i, q, r) ==
  IF i > Len(n) THEN StripLead(q)
  ELSE LET v == r * 10 + n[i]
       IN  NatDivSmall(n, b, i + 1, Append(q, v \div b), v % b)

NatDiv(n, b) ==
  IF Len(b) <= 8 THEN NatDivSmall(n, IntOfNat(b, 1, 0), 1, <<>>, 0)
  ELSE NatDivAux(n, b, 1, <<>>, <<>>)

(***************************************************************************)
(* Decimal (decimal.js): sign, coefficient digits and exponent, the value  *)
(* being (-1)^neg * d * 10^e.  Normal form: no leading or trailing zero    *)
(* in d, and zero is [neg |-> FALSE, d |-> <<>>, e |-> 0], so that equal   *)
(* values are equal records.  decimal.js keeps a sign on zero, which       *)
(* neither toString nor isZero, plus, minus, times or dividedBy of the     *)
(* ledger expose; it is dropped here.                                      *)
(***************************************************************************)
DZero == [neg |-> FALSE, d |-> <<>>, e |-> 0]

Norm(neg, d, e) ==
  LET s == StripLead(d)
      t == TrailingZeros(s)
  IN  IF s = <<>> THEN DZero
      ELSE [neg |-> neg, d |-> SubSeq(s, 1, Len(s) - t), e |-> e + t]

\* new Decimal(n) for an integer n
Dec(n) == IF n < 0 THEN Norm(TRUE, NatOfInt(-n), 0) ELSE Norm(FALSE, NatOfInt(n), 0)

isZero(x) == x.d = <<>>

Negated(x) == IF isZero(x) THEN x ELSE [x EXCEPT !.neg = ~x.neg]

\* finalise(x, sd, ROUND_HALF_UP): round the coefficient d * 10^e to sd
\* significant digits, ties away from zero
RoundSig(neg, d, e, sd) ==
  LET s == StripLead(d)
  IN  IF Len(s) <= sd THEN Norm(neg, s, e)
      ELSE LET kept == SubSeq(s, 1, sd)
               up   == s[sd + 1] >= 5
           IN  Norm(neg, IF up THEN NatAdd(kept, <<1>>) ELSE kept, e + Len(s) - sd)

\* the coefficient of x at the exponent e <= x.e
Coef(x, e) == IF isZero(x) THEN <<>> ELSE x.d \o Zeros(x.e - e)

MinExp(x, y) ==
  IF isZero(x) THEN y.e
  ELSE IF isZero(y) THEN x.e
  ELSE IF x.e < y.e THEN x.e ELSE y.e

\* x + y, exact
ExactSum(x, y) ==
  LET e == MinExp(x, y)
      a == Coef(x, e)
      b == Coef(y, e)
      c == NatCmp(a, b)
  IN  IF x.neg = y.neg THEN [neg |-> x.neg, d |-> NatAdd(a, b), e |-> e]
      ELSE IF c = 0 THEN DZero
      ELSE IF c > 0 THEN [neg |-> x.neg, d |-> NatSub(a, b), e |-> e]
      ELSE [neg |-> y.neg, d |-> NatSub(b, a), e |-> e]

\* Decimal.prototype.plus
plus(x, y) ==
  LET s == ExactSum(x, y) IN RoundSig(s.neg, s.d, s.e, DecimalPrecision)

\* Decimal.prototype.minus
minus(x, y) == plus(x, Negated(y))

\* Decimal.prototype.times
times(x, y) ==
  IF isZero(x) \/ isZero(y) THEN DZero
  ELSE RoundSig(x.neg # y.neg, NatMul(x.d, y.d), x.e + y.e, DecimalPrecision)

\* Decimal.prototype.dividedBy, y # 0: the quotient is developed to at least
\* DecimalPrecision + 1 digits, which decide the rounding half up
dividedBy(x, y) ==
  IF isZero(x) THEN DZero
  ELSE LET want == Len(y.d) + DecimalPrecision + 1
           k    == IF want > Len(x.d) THEN want - Len(x.d) ELSE 0
           q    == NatDiv(x.d \o Zeros(k), y.d)
       IN  RoundSig(x.neg # y.neg, q, x.e - y.e - k, DecimalPrecision)

\* x < 0
isNeg(x) == x.neg /\ ~isZero(x)

(***************************************************************************)
(* PostgreSQL numeric(p, s): a value written to the column is rounded to   *)
(* s decimal places, ties away from zero.                                  *)
(***************************************************************************)
ToNumeric(x, scale) ==
  IF isZero(x) \/ -x.e <= scale THEN x
  ELSE LET drop == -x.e - scale
           s    == PadLeft(x.d, drop + 1)
           kept == SubSeq(s, 1, Len(s) - drop)
           up   == s[Len(s) - drop + 1] >= 5
       IN  Norm(x.neg, IF up THEN NatAdd(StripLead(kept), <<1>>) ELSE kept, -scale)

(***************************************************************************)
(* Number (IEEE 754 binary64): sign, significand and binary exponent, the   *)
(* value being (-1)^neg * m * 2^e.  Normal form: 2^52 <= m < 2^53, and     *)
(* zero is [neg |-> FALSE, m |-> <<>>, e |-> 0]; the values met here are   *)
(* far from the subnormal and the overflow range.                          *)
(***************************************************************************)
\* a * k for a machine integer 0 < k <= 2^26; st is the position, the carry
\* and the digits written so far, from the last digit leftwards
RECURSIVE NatMulSmallAux(_, _, _)
NatMulSmallAux(a, k, st) ==
  IF st.i = 0 THEN StripLead(NatOfInt(st.carry) \o st.out)
  ELSE LET v == a[st.i] * k + st.carry
       IN  NatMulSmallAux(a, k, [i |-> st.i - 1, carry |-> v \div 10,
                                 out |-> <<v % 10>> \o st.out])

NatMulSmall(a, k) == NatMulSmallAux(a, k, [i |-> Len(a), carry |-> 0, out |-> <<>>])

\* quotient q and remainder r of a by a machine integer 0 < k <= 2^26
RECURSIVE NatDivModSmallAux(_, _, _)
NatDivModSmallAux(a, k, st) ==
  IF st.i > Len(a) THEN [q |-> StripLead(st.q), r |-> st.r]
  ELSE LET v == st.r * 10 + a[st.i]
       IN  NatDivModSmallAux(a, k, [i |-> st.i + 1, q |-> Append(st.q, v \div k),
                                    r |-> v % k])

NatDivModSmall(a, k) == NatDivModSmallAux(a, k, [i |-> 1, q |-> <<>>, r |-> 0])

\* a * 2^n
RECURSIVE ShiftLeft(_, _)
ShiftLeft(a, n) ==
  IF n = 0 \/ a = <<>> THEN a
  ELSE IF n >= 26 THEN ShiftLeft(NatMulSmall(a, 2^26), n - 26)
  ELSE NatMulSmall(a, 2^n)

Pow2 == [n \in 0..79 |-> ShiftLeft(<<1>>, n)]

NZero == [neg |-> FALSE, m |-> <<>>, e |-> 0]

IsOdd(a) == a # <<>> /\ a[Len(a)] % 2 = 1

\* for 2^53 <= a < 2^79, the t in 1..26 with 2^(52+t) <= a < 2^(53+t)
ExcessBits(a) == CHOOSE t \in 1..26 : NatCmp(a, Pow2[53 + t]) < 0 /\ NatCmp(a, Pow2[52 + t]) >= 0

\* the Number nearest to (a + f) * 2^e, for a = 0 or a >= 2^53 and a fraction
\* 0 <= f < 1 that is zero iff sticky is false: round to nearest, ties to even
RECURSIVE RoundNearestEven(_, _)
RoundNearestEven(neg, st) ==
  IF st.a = <<>> THEN NZero
  ELSE IF NatCmp(st.a, Pow2[79]) >= 0
  THEN LET d == NatDivModSmall(st.a, 2^26)
       IN  RoundNearestEven(neg, [a |-> d.q, e |-> st.e + 26,
                                  sticky |-> st.sticky \/ d.r # 0])
  ELSE LET t    == ExcessBits(st.a)
           d    == NatDivModSmall(st.a, 2^t)
           half == 2^(t - 1)
           up   == d.r > half \/ (d.r = half /\ (st.sticky \/ IsOdd(d.q)))
           m    == IF up THEN NatAdd(d.q, <<1>>) ELSE d.q
       IN  IF m = Pow2[53] THEN [neg |-> neg, m |-> Pow2[52], e |-> st.e + t + 1]
           ELSE [neg |-> neg, m |-> m, e |-> st.e + t]

\* parseFloat(x.toString()) for a Decimal x: the Number nearest to x.  The
\* coefficient is scaled by 2^s, s large enough for the quotient by 10^j to
\* have more than 53 bits, and the quotient is the digits left of the last j
parseFloat(x) ==
  IF isZero(x) THEN NZero
  ELSE LET n == x.d \o Zeros(IF x.e > 0 THEN x.e ELSE 0)
           j == IF x.e < 0 THEN -x.e ELSE 0
           w == 54 + 4 * j - 3 * (Len(n) - 1)
           s == IF w > 0 THEN w ELSE 0
           p == ShiftLeft(n, s)
           k == IF Len(p) > j THEN Len(p) - j ELSE 0
       IN  RoundNearestEven(x.neg,
             [a |-> SubSeq(p, 1, k), e |-> -s,
              sticky |-> StripLead(SubSeq(p, k + 1, Len(p))) # <<>>])

\* the Number nearest to d * 2^e, d a natural
NumberOf(neg, d, e) ==
  RoundNearestEven(neg, [a |-> ShiftLeft(d, 54), e |-> e - 54, sticky |-> FALSE])

\* a + b on Numbers
NumberAdd(a, b) ==
  IF a.m = <<>> THEN b
  ELSE IF b.m = <<>> THEN a
  ELSE LET e == IF a.e < b.e THEN a.e ELSE b.e
           x == ShiftLeft(a.m, a.e - e)
           y == ShiftLeft(b.m, b.e - e)
           c == NatCmp(x, y)
       IN  IF a.neg = b.neg THEN NumberOf(a.neg, NatAdd(x, y), e)
           ELSE IF c = 0 THEN NZero
           ELSE IF c > 0 THEN NumberOf(a.neg, NatSub(x, y), e)
           ELSE NumberOf(b.neg, NatSub(y, x), e)

\* a < 0 on Numbers
NumberIsNeg(a) == a.neg /\ a.m # <<>>

(***************************************************************************)
(* State.                                                                  *)
(*  state, before, txn, steps: a replay in progress (the loop of           *)
(*    recomputeAggregates): the ReplayState, the state before the last     *)
(*    transaction folded, that transaction, and the number folded;         *)
(*  hist: the transactions folded so far, in order;                        *)
(*  stocks, transactions, stockAggregates: the three tables;               *)
(*  nextStockId, nextTxnId: the serial columns; now: the clock behind      *)
(*    defaultNow();                                                        *)
(*  foldLog: per stock, the ids printed by the "Processing ... transaction"*)
(*    log lines of its last recompute, in order;                           *)
(*  lastCall: the last operation called, the stock it was called for, and  *)
(*    whether it repeats the call before it (a recompute of the same       *)
(*    stock with no other call in between);                                *)
(*  pending, mode, marked, target, settled: the script of TwinSpec;        *)
(*  pc, job, fetched, existing: the calls in flight of ConcSpec;           *)
(*  batch: the last recomputeAllAggregates call: whether it is running,    *)
(*    the stocks of allStocks its loop has not reached (todo), the length  *)
(*    of allStocks (count), the stocks whose recompute threw (failed),     *)
(*    the stocks whose row was not the replay of their transactions when   *)
(*    the call began (stale), and the value returned (result);             *)
(*  report: the daywise query whose answer the client holds: the days of   *)
(*    input.from and input.to, input.stockId (<<>> when absent) and the    *)
(*    array returned.                                                      *)
(***************************************************************************)
VARIABLES state, before, txn, steps, hist,
          stocks, transactions, stockAggregates, nextStockId, nextTxnId, now,
          foldLog, lastCall,
          pending, mode, marked, target, settled,
          pc, job, fetched, existing,
          batch, report

foldVars == <<state, before, txn, steps, hist>>
storeVars == <<stocks, transactions, stockAggregates, nextStockId, nextTxnId, now,
               foldLog, lastCall>>
twinVars == <<pending, mode, marked, target, settled>>
concVars == <<pc, job, fetched, existing>>
batchVars == <<batch>>
reportVars == <<report>>
vars == <<foldVars, storeVars, twinVars, concVars, batchVars, reportVars>>

(***************************************************************************)
(* Inputs.  A quantity is <<>> (null) or <<q>>; amounts and quantities are *)
(* the decimal strings of small integers.                                  *)
(***************************************************************************)
Types == {"BUY", "SELL", "DIVIDEND"}
Qtys == {1, 3}
Quantities == {<<>>} \cup {<<q>> : q \in Qtys}
Amounts == {100, 250}
Dates == 1..MaxDate
StockIds == 1..MaxStocks
Procs == 1..NumProcs
NoNotes == "null"
NoteInputs == {"", "memo"}

NoTxn == [type |-> "NONE", quantity |-> <<>>, totalAmount |-> 0]

(***************************************************************************)
(* The ledger replay.                                                      *)
(***************************************************************************)
ZeroState ==
  [totalShares |-> DZero, totalInvested |-> DZero,
   avgCost |-> DZero, realizedProfit |-> DZero]

\* txn.quantity ? new Decimal(txn.quantity) : new Decimal(0)
QuantityOf(t) == IF t.quantity = <<>> THEN Dec(0) ELSE Dec(t.quantity[1])

\* processSell leaving the average cost as it was before the sale
processSellKeepAvg(st, quantity, totalAmount) ==
  LET costRemoved == times(st.avgCost, quantity)
  IN  [totalShares |-> minus(st.totalShares, quantity),
       totalInvested |-> minus(st.totalInvested, costRemoved),
       avgCost |-> st.avgCost,
       realizedProfit |-> plus(st.realizedProfit, minus(totalAmount, costRemoved))]

\* processBuy taking the unit price of this purchase as the average cost
processBuyUnitPrice(st, quantity, totalAmount) ==
  [st EXCEPT !.totalShares = plus(st.totalShares, quantity),
             !.totalInvested = plus(st.totalInvested, totalAmount),
             !.avgCost = IF isZero(quantity) THEN Dec(0)
                         ELSE dividedBy(totalAmount, quantity)]

\* processDividend booking the income as a return of invested capital too
processDividendAsCapital(st, quantity, totalAmount) ==
  [st EXCEPT !.realizedProfit = plus(st.realizedProfit, totalAmount),
             !.totalInvested = minus(st.totalInvested, totalAmount)]

\* processSell deriving the cost basis from the shares left and the average
processSellInvestedFromShares(st, quantity, totalAmount) ==
  LET costRemoved    == times(st.avgCost, quantity)
      newTotalShares == minus(st.totalShares, quantity)
  IN  [totalShares |-> newTotalShares,
       totalInvested |-> times(st.avgCost, newTotalShares),
       avgCost |-> IF isZero(newTotalShares) THEN Dec(0) ELSE st.avgCost,
       realizedProfit |-> plus(st.realizedProfit, minus(totalAmount, costRemoved))]

\* processSell refusing a sale of more shares than are held
processSellRejectOversell(st, quantity, totalAmount) ==
  IF isNeg(minus(st.totalShares, quantity)) THEN st
  ELSE LET costRemoved    == times(st.avgCost, quantity)
           newTotalShares == minus(st.totalShares, quantity)
           newInvested    == minus(st.totalInvested, costRemoved)
       IN  [totalShares |-> newTotalShares,
            totalInvested |-> newInvested,
            avgCost |-> IF isZero(newTotalShares) THEN Dec(0)
                        ELSE dividedBy(newInvested, newTotalShares),
            realizedProfit |-> plus(st.realizedProfit, minus(totalAmount, costRemoved))]

\* the BUY branch
processBuy(st, quantity, totalAmount) ==
  LET newTotalShares   == plus(st.totalShares, quantity)
      newTotalInvested == plus(st.totalInvested, totalAmount)
      newAvgCost       == IF isZero(newTotalShares) THEN Dec(0)
                          ELSE dividedBy(newTotalInvested, newTotalShares)
  IN  [st EXCEPT !.totalShares = newTotalShares,
                 !.totalInvested = newTotalInvested,
                 !.avgCost = newAvgCost]

\* the SELL branch
processSell(st, quantity, totalAmount) ==
  LET costRemoved      == times(st.avgCost, quantity)
      proceeds         == totalAmount
      realizedThisTxn  == minus(proceeds, costRemoved)
      newTotalShares   == minus(st.totalShares, quantity)
      newTotalInvested == minus(st.totalInvested, costRemoved)
      newAvgCost       == IF isZero(newTotalShares) THEN Dec(0)
                          ELSE dividedBy(newTotalInvested, newTotalShares)
  IN  [totalShares |-> newTotalShares,
       totalInvested |-> newTotalInvested,
       avgCost |-> newAvgCost,
       realizedProfit |-> plus(st.realizedProfit, realizedThisTxn)]

\* the DIVIDEND branch
processDividend(st, quantity, totalAmount) ==
  [st EXCEPT !.realizedProfit = plus(st.realizedProfit, totalAmount)]

processTransaction(st, t) ==
  LET quantity    == QuantityOf(t)
      totalAmount == Dec(t.totalAmount)
  IN  IF t.type = "BUY" THEN processBuy(st, quantity, totalAmount)
      ELSE IF t.type = "SELL" THEN processSell(st, quantity, totalAmount)
      ELSE IF t.type = "DIVIDEND" THEN processDividend(st, quantity, totalAmount)
      ELSE st

(***************************************************************************)
(* FoldSpec: the replay loop on an arbitrary history, one transaction per  *)
(* step.                                                                   *)
(***************************************************************************)
StoreInit ==
  /\ stocks = {}
  /\ transactions = {}
  /\ stockAggregates = [s \in StockIds |-> <<>>]
  /\ nextStockId = 1
  /\ nextTxnId = 1
  /\ now = 1
  /\ foldLog = [s \in StockIds |-> <<>>]
  /\ lastCall = <<"none", 0, FALSE>>

FoldInit ==
  /\ state = ZeroState
  /\ before = ZeroState
  /\ txn = NoTxn
  /\ steps = 0
  /\ hist = <<>>

TwinIdle ==
  /\ pending = <<>>
  /\ mode = "none"
  /\ marked = 0
  /\ target = <<>>
  /\ settled = FALSE

ConcIdle ==
  /\ pc = [p \in Procs |-> "idle"]
  /\ job = [p \in Procs |-> <<>>]
  /\ fetched = [p \in Procs |-> <<>>]
  /\ existing = [p \in Procs |-> <<>>]

\* no recomputeAllAggregates has been called yet
BatchIdle ==
  batch = [running |-> FALSE, todo |-> {}, count |-> 0, failed |-> {},
           stale |-> {}, result |-> <<>>]

\* no daywise answer at hand
ReportIdle ==
  report = [called |-> FALSE, from |-> 0, to |-> 0, stockId |-> <<>>, result |-> <<>>]

FoldStart == FoldInit /\ StoreInit /\ TwinIdle /\ ConcIdle /\ BatchIdle /\ ReportIdle

\* one iteration of: for (const txn of txns) state = processTransaction(state, txn)
ReplayStep(type, quantity, totalAmount) ==
  LET t == [type |-> type, quantity |-> quantity, totalAmount |-> totalAmount]
  IN  /\ steps < MaxSteps
      /\ before' = state
      /\ txn' = t
      /\ state' = processTransaction(state, t)
      /\ steps' = steps + 1
      /\ hist' = Append(hist, t)
      /\ UNCHANGED <<storeVars, twinVars, concVars, batchVars, reportVars>>

FoldNext ==
  \E type \in Types, quantity \in Quantities, totalAmount \in Amounts :
    ReplayStep(type, quantity, totalAmount)

FoldSpec == FoldStart /\ [][FoldNext]_vars

(***************************************************************************)
(* The tables.  A transactions row is                                      *)
(*   [id, stockId, type, date, quantity, totalAmount, notes, createdAt];   *)
(* stockAggregates[s] is the result of                                     *)
(*   select().from(stockAggregates).where(stockId = s).limit(1):           *)
(* <<>> or <<row>>, row = [totalShares, totalInvested, avgCost,            *)
(* realizedProfit].                                                        *)
(***************************************************************************)
TxnInputs ==
  { [type |-> "BUY", quantity |-> <<3>>, totalAmount |-> 100],
    [type |-> "BUY", quantity |-> <<1>>, totalAmount |-> 250],
    [type |-> "SELL", quantity |-> <<1>>, totalAmount |-> 100],
    [type |-> "SELL", quantity |-> <<3>>, totalAmount |-> 250],
    [type |-> "DIVIDEND", quantity |-> <<>>, totalAmount |-> 100],
    [type |-> "BUY", quantity |-> <<>>, totalAmount |-> 100] }

TxnIds == 1..MaxTxns

\* the values a numeric column holds for a Decimal written as toString()
AggregateRow(st) ==
  [totalShares |-> ToNumeric(st.totalShares, ShareScale),
   totalInvested |-> ToNumeric(st.totalInvested, MoneyScale),
   avgCost |-> ToNumeric(st.avgCost, ShareScale),
   realizedProfit |-> ToNumeric(st.realizedProfit, MoneyScale)]

\* where(eq(transactions.stockId, stockId))
TxnsOfStock(txs, stockId) == {t \in txs : t.stockId = stockId}

\* where(eq(transactions.id, id)).limit(1)
TxnById(txs, id) == {t \in txs : t.id = id}

\* orderBy(asc(transactions.date), asc(transactions.createdAt)): the rows in
\* every order the sort keys allow (rows equal on both keys come in any order)
OrderedByDateCreated(rows) ==
  LET n == Cardinality(rows)
  IN  { o \in [1..n -> rows] :
          /\ \A i, j \in 1..n : i # j => o[i] # o[j]
          /\ \A i \in 1..n, j \in 1..n : i < j =>
               \/ o[i].date < o[j].date
               \/ o[i].date = o[j].date /\ o[i].createdAt <= o[j].createdAt }

\* for (const txn of txns) state = processTransaction(state, txn), from zero
RECURSIVE ReplayFrom(_, _, _)
ReplayFrom(st, txns, i) ==
  IF i > Len(txns) THEN st
  ELSE ReplayFrom(processTransaction(st, txns[i]), txns, i + 1)

Replay(txns) == ReplayFrom(ZeroState, txns, 1)

\* recomputeAggregates that patches the persisted row with the last
\* transaction instead of replaying from zero
recomputeAggregatesPatch(txs, stockId) ==
  \E txns \in OrderedByDateCreated(TxnsOfStock(txs, stockId)) :
    LET existingAggregate == stockAggregates[stockId]
        from == IF existingAggregate = <<>> THEN ZeroState ELSE existingAggregate[1]
        st == IF txns = <<>> THEN ZeroState
              ELSE processTransaction(from, txns[Len(txns)])
    IN  /\ stockAggregates' = [stockAggregates EXCEPT ![stockId] = <<AggregateRow(st)>>]
        /\ foldLog' = [foldLog EXCEPT ![stockId] = [i \in 1..Len(txns) |-> txns[i].id]]

\* recomputeAggregates(stockId) on the transactions table txs: fetch in
\* order, replay, then insert the aggregate row or update the existing one
recomputeAggregates(txs, stockId) ==
  \E txns \in OrderedByDateCreated(TxnsOfStock(txs, stockId)) :
    LET st == Replay(txns)
        existingAggregate == stockAggregates[stockId]
    IN  /\ IF existingAggregate = <<>>
           THEN stockAggregates' =
                  [stockAggregates EXCEPT ![stockId] = <<AggregateRow(st)>>]
           ELSE stockAggregates' =
                  [stockAggregates EXCEPT ![stockId] = <<AggregateRow(st)>>]
        /\ foldLog' = [foldLog EXCEPT ![stockId] = [i \in 1..Len(txns) |-> txns[i].id]]

\* createStock: the stocks row, then the aggregate row of zeros; the insert
\* fails on the unique stockId when a recompute has already created that row
createStock ==
  /\ nextStockId <= MaxStocks
  /\ stocks' = stocks \cup {nextStockId}
  /\ nextStockId' = nextStockId + 1
  /\ IF stockAggregates[nextStockId] = <<>>
     THEN stockAggregates' =
            [stockAggregates EXCEPT ![nextStockId] = <<AggregateRow(ZeroState)>>]
     ELSE UNCHANGED stockAggregates
  /\ lastCall' = <<"createStock", nextStockId, FALSE>>
  /\ UNCHANGED <<transactions, nextTxnId, now, foldLog>>

\* addTransaction
addTransaction(stockId, input, date, notes) ==
  LET row == [id |-> nextTxnId, stockId |-> stockId, type |-> input.type,
              date |-> date, quantity |-> input.quantity,
              totalAmount |-> input.totalAmount,
              notes |-> IF notes = "" THEN NoNotes ELSE notes,
              createdAt |-> now]
      txs == transactions \cup {row}
  IN  /\ transactions' = txs
      /\ nextTxnId' = nextTxnId + 1
      /\ now' = now + 1
      /\ recomputeAggregates(txs, stockId)
      /\ lastCall' = <<"addTransaction", stockId, FALSE>>
      /\ UNCHANGED <<stocks, nextStockId>>

\* updateTransaction without the recompute
updateTransactionNoRecompute(id, input, date, notes) ==
  \E old \in TxnById(transactions, id) :
    /\ transactions' = (transactions \ {old}) \cup
         {[old EXCEPT !.type = input.type, !.date = date,
                      !.quantity = input.quantity,
                      !.totalAmount = input.totalAmount,
                      !.notes = IF notes = "" THEN NoNotes ELSE notes]}
    /\ lastCall' = <<"updateTransaction", old.stockId, FALSE>>
    /\ UNCHANGED <<stocks, nextStockId, nextTxnId, now, stockAggregates, foldLog>>

\* updateTransaction that stamps the row with a new createdAt as well
updateTransactionNewCreatedAt(id, input, date, notes) ==
  IF TxnById(transactions, id) = {}
  THEN /\ lastCall' = <<"updateTransaction", 0, FALSE>>
       /\ UNCHANGED <<stocks, transactions, stockAggregates, nextStockId,
                      nextTxnId, now, foldLog>>
  ELSE \E old \in TxnById(transactions, id) :
         LET row == [old EXCEPT !.type = input.type, !.date = date,
                                !.quantity = input.quantity,
                                !.totalAmount = input.totalAmount,
                                !.notes = IF notes = "" THEN NoNotes ELSE notes,
                                !.createdAt = now]
             txs == (transactions \ {old}) \cup {row}
         IN  /\ transactions' = txs
             /\ recomputeAggregates(txs, old.stockId)
             /\ lastCall' = <<"updateTransaction", old.stockId, FALSE>>
             /\ UNCHANGED <<stocks, nextStockId, nextTxnId, now>>

\* updateTransaction; "Transaction not found" when no row has the id
updateTransaction(id, input, date, notes) ==
  IF TxnById(transactions, id) = {}
  THEN /\ lastCall' = <<"updateTransaction", 0, FALSE>>
       /\ UNCHANGED <<stocks, transactions, stockAggregates, nextStockId,
                      nextTxnId, now, foldLog>>
  ELSE \E old \in TxnById(transactions, id) :
         LET row == [old EXCEPT !.type = input.type, !.date = date,
                                !.quantity = input.quantity,
                                !.totalAmount = input.totalAmount,
                                !.notes = IF notes = "" THEN NoNotes ELSE notes]
             txs == (transactions \ {old}) \cup {row}
         IN  /\ transactions' = txs
             /\ recomputeAggregates(txs, old.stockId)
             /\ lastCall' = <<"updateTransaction", old.stockId, FALSE>>
             /\ UNCHANGED <<stocks, nextStockId, nextTxnId, now>>

\* deleteTransaction without the recompute
deleteTransactionNoRecompute(id) ==
  \E old \in TxnById(transactions, id) :
    /\ transactions' = transactions \ {old}
    /\ lastCall' = <<"deleteTransaction", old.stockId, FALSE>>
    /\ UNCHANGED <<stocks, nextStockId, nextTxnId, now, stockAggregates, foldLog>>

\* deleteTransaction; "Transaction not found" when no row has the id
deleteTransaction(id) ==
  IF TxnById(transactions, id) = {}
  THEN /\ lastCall' = <<"deleteTransaction", 0, FALSE>>
       /\ UNCHANGED <<stocks, transactions, stockAggregates, nextStockId,
                      nextTxnId, now, foldLog>>
  ELSE \E old \in TxnById(transactions, id) :
         LET txs == transactions \ {old}
         IN  /\ transactions' = txs
             /\ recomputeAggregates(txs, old.stockId)
             /\ lastCall' = <<"deleteTransaction", old.stockId, FALSE>>
             /\ UNCHANGED <<stocks, nextStockId, nextTxnId, now>>

\* getStockAggregates(stockId): the row, or null (<<>>) when there is none
getStockAggregates(stockId) == stockAggregates[stockId]

\* the recomputeAggregates procedure of the transaction router
recomputeAggregatesCall(stockId) ==
  /\ recomputeAggregates(transactions, stockId)
  /\ lastCall' = <<"recomputeAggregates", stockId,
                    lastCall[1] = "recomputeAggregates" /\ lastCall[2] = stockId>>
  /\ UNCHANGED <<stocks, transactions, nextStockId, nextTxnId, now>>

(***************************************************************************)
(* Spec: one call at a time, each running to its end.                      *)
(***************************************************************************)
Init == FoldInit /\ StoreInit /\ TwinIdle /\ ConcIdle /\ BatchIdle /\ ReportIdle

CreateStock == createStock /\ UNCHANGED <<foldVars, twinVars, concVars, batchVars, reportVars>>

AddTransaction ==
  /\ nextTxnId <= MaxTxns
  /\ \E stockId \in StockIds, input \in TxnInputs, date \in Dates :
       addTransaction(stockId, input, date, "")
  /\ UNCHANGED <<foldVars, twinVars, concVars, batchVars, reportVars>>

UpdateTransaction ==
  \E id \in TxnIds, input \in TxnInputs, date \in Dates :
    updateTransaction(id, input, date, "") /\ UNCHANGED <<foldVars, twinVars, concVars, batchVars, reportVars>>

DeleteTransaction ==
  \E id \in TxnIds : deleteTransaction(id) /\ UNCHANGED <<foldVars, twinVars, concVars, batchVars, reportVars>>

RecomputeAggregates ==
  \E stockId \in StockIds :
    recomputeAggregatesCall(stockId) /\ UNCHANGED <<foldVars, twinVars, concVars, batchVars, reportVars>>

Next ==
  \/ CreateStock
  \/ AddTransaction
  \/ UpdateTransaction
  \/ DeleteTransaction
  \/ RecomputeAggregates

Spec == Init /\ [][Next]_vars

(***************************************************************************)
(* TwinSpec: the same history entered for two stocks, except for one       *)
(* transaction of stock 1, which is either missing from stock 2 (and       *)
(* later deleted from stock 1) or entered with other values in stock 2     *)
(* (and later edited to those values in stock 1).  Every step is one call  *)
(* of addTransaction, updateTransaction or deleteTransaction; the script   *)
(* variables only choose which call comes next.                            *)
(*   pending: the input still to be entered for stock 2;                   *)
(*   mode: "none", "extra" or "edit"; marked: the id of the transaction    *)
(*   that differs; target: the values it is edited to; settled: the        *)
(*   delete or the edit has been done.                                     *)
(***************************************************************************)
TwinInit ==
  /\ FoldInit /\ ConcIdle /\ TwinIdle /\ BatchIdle /\ ReportIdle
  /\ stocks = {1, 2}
  /\ transactions = {}
  /\ stockAggregates =
       [s \in StockIds |-> IF s \in {1, 2} THEN <<AggregateRow(ZeroState)>> ELSE <<>>]
  /\ nextStockId = 3
  /\ nextTxnId = 1
  /\ now = 1
  /\ foldLog = [s \in StockIds |-> <<>>]
  /\ lastCall = <<"none", 0, FALSE>>

\* a transaction for stock 1, to be entered for stock 2 next
TwinAdd ==
  /\ pending = <<>>
  /\ nextTxnId < MaxTwinTxns
  /\ \E input \in TxnInputs, date \in Dates :
       /\ addTransaction(1, input, date, "")
       /\ pending' = <<[input |-> input, date |-> date]>>
  /\ UNCHANGED <<mode, marked, target, settled, foldVars, concVars, batchVars, reportVars>>

\* the pending transaction, for stock 2
TwinMirror ==
  /\ pending # <<>>
  /\ addTransaction(2, pending[1].input, pending[1].date, "")
  /\ pending' = <<>>
  /\ UNCHANGED <<mode, marked, target, settled, foldVars, concVars, batchVars, reportVars>>

\* the transaction only stock 1 gets
TwinAddExtra ==
  /\ pending = <<>>
  /\ mode = "none"
  /\ nextTxnId <= MaxTwinTxns
  /\ \E input \in TxnInputs, date \in Dates : addTransaction(1, input, date, "")
  /\ mode' = "extra"
  /\ marked' = nextTxnId
  /\ UNCHANGED <<pending, target, settled, foldVars, concVars, batchVars, reportVars>>

\* the transaction stock 1 gets with values to be edited later; stock 2 gets
\* the edited values next
TwinAddToEdit ==
  /\ pending = <<>>
  /\ mode = "none"
  /\ nextTxnId < MaxTwinTxns
  /\ \E input \in TxnInputs, date \in Dates, input2 \in TxnInputs, date2 \in Dates :
       /\ <<input, date>> # <<input2, date2>>
       /\ addTransaction(1, input, date, "")
       /\ pending' = <<[input |-> input2, date |-> date2]>>
       /\ target' = <<[input |-> input2, date |-> date2]>>
  /\ mode' = "edit"
  /\ marked' = nextTxnId
  /\ UNCHANGED <<settled, foldVars, concVars, batchVars, reportVars>>

TwinDelete ==
  /\ pending = <<>>
  /\ mode = "extra"
  /\ ~settled
  /\ deleteTransaction(marked)
  /\ settled' = TRUE
  /\ UNCHANGED <<pending, mode, marked, target, foldVars, concVars, batchVars, reportVars>>

TwinUpdate ==
  /\ pending = <<>>
  /\ mode = "edit"
  /\ ~settled
  /\ updateTransaction(marked, target[1].input, target[1].date, "")
  /\ settled' = TRUE
  /\ UNCHANGED <<pending, mode, marked, target, foldVars, concVars, batchVars, reportVars>>

TwinNext ==
  \/ TwinAdd
  \/ TwinMirror
  \/ TwinAddExtra
  \/ TwinAddToEdit
  \/ TwinDelete
  \/ TwinUpdate

TwinSpec == TwinInit /\ [][TwinNext]_vars

(***************************************************************************)
(* ConcSpec: the calls of several requests in flight at once.  Every await *)
(* of a handler is a step of its own, and the steps of different requests  *)
(* interleave freely: the handlers take no lock and open no database       *)
(* transaction.                                                            *)
(*   pc[p]: the statement request p runs next ("idle" before its call,     *)
(*   "done" once the call has returned, "failed" once it has thrown,       *)
(*   "faulted" once a failure of the store has made it throw);             *)
(*   job[p]: the call and its arguments; fetched[p]: the txns array of     *)
(*   its recompute; existing[p]: whether its select found an aggregate     *)
(*   row.  Each request makes one call.                                    *)
(* createdAt is the clock of the database when the insert begins: inserts  *)
(* of requests in flight together may read the same value, the insert of   *)
(* a call that begins after another call has returned reads a later one.   *)
(***************************************************************************)
\* the store before the requests arrive: stock 1 registered, and either no
\* transaction or one that an earlier addTransaction has entered for it
ConcInit ==
  /\ FoldInit /\ TwinIdle /\ ConcIdle /\ BatchIdle /\ ReportIdle
  /\ stocks = {1}
  /\ nextStockId = 2
  /\ \/ /\ transactions = {}
        /\ stockAggregates =
             [s \in StockIds |-> IF s = 1 THEN <<AggregateRow(ZeroState)>> ELSE <<>>]
        /\ nextTxnId = 1
        /\ now = 1
        /\ foldLog = [s \in StockIds |-> <<>>]
        /\ lastCall = <<"createStock", 1, FALSE>>
     \/ \E input \in TxnInputs, date \in Dates :
          LET row == [id |-> 1, stockId |-> 1, type |-> input.type,
                      date |-> date, quantity |-> input.quantity,
                      totalAmount |-> input.totalAmount, notes |-> NoNotes,
                      createdAt |-> 1]
          IN  /\ transactions = {row}
              /\ stockAggregates =
                   [s \in StockIds |->
                      IF s = 1 THEN <<AggregateRow(Replay(<<row>>))>> ELSE <<>>]
              /\ nextTxnId = 2
              /\ now = 2
              /\ foldLog = [s \in StockIds |-> IF s = 1 THEN <<1>> ELSE <<>>]
              /\ lastCall = <<"addTransaction", 1, FALSE>>

\* the clock once a call has returned: past every createdAt given so far
ClockAfterReturn(txs) ==
  IF \E t \in txs : t.createdAt = now THEN now + 1 ELSE now

\* request p leaves its call
Return(p, result) ==
  /\ pc' = [pc EXCEPT ![p] = result]
  /\ job' = [job EXCEPT ![p] = <<>>]
  /\ fetched' = [fetched EXCEPT ![p] = <<>>]
  /\ existing' = [existing EXCEPT ![p] = <<>>]
  /\ now' = ClockAfterReturn(transactions)

\* addTransaction up to its first await: db.insert(transactions)
ConcInsertTransaction(p) ==
  /\ pc[p] = "idle"
  /\ nextTxnId <= MaxTxns
  /\ \E stockId \in StockIds, input \in TxnInputs, date \in Dates :
       /\ transactions' = transactions \cup
            {[id |-> nextTxnId, stockId |-> stockId, type |-> input.type,
              date |-> date, quantity |-> input.quantity,
              totalAmount |-> input.totalAmount, notes |-> NoNotes,
              createdAt |-> now]}
       /\ job' = [job EXCEPT ![p] = [op |-> "add", stockId |-> stockId]]
  /\ nextTxnId' = nextTxnId + 1
  /\ now' \in {now, now + 1}
  /\ pc' = [pc EXCEPT ![p] = "fetch"]
  /\ UNCHANGED <<stocks, stockAggregates, nextStockId, foldLog, lastCall,
                 fetched, existing>>
  /\ UNCHANGED <<foldVars, twinVars, batchVars, reportVars>>

\* updateTransaction up to its first await: the select by id
ConcUpdateLookup(p) ==
  /\ pc[p] = "idle"
  /\ \E id \in TxnIds, input \in TxnInputs, date \in Dates :
       IF TxnById(transactions, id) = {}
       THEN /\ pc' = [pc EXCEPT ![p] = "failed"]
            /\ UNCHANGED job
       ELSE \E old \in TxnById(transactions, id) :
              /\ pc' = [pc EXCEPT ![p] = "update"]
              /\ job' = [job EXCEPT ![p] =
                   [op |-> "update", stockId |-> old.stockId, id |-> id,
                    input |-> input, date |-> date]]
  /\ UNCHANGED <<storeVars, fetched, existing>>
  /\ UNCHANGED <<foldVars, twinVars, batchVars, reportVars>>

\* db.update(transactions).set(...).where(eq(transactions.id, id)): no row
\* is written when the row has been deleted since the select
ConcUpdateRow(p) ==
  /\ pc[p] = "update"
  /\ transactions' =
       { IF t.id = job[p].id
         THEN [t EXCEPT !.type = job[p].input.type, !.date = job[p].date,
                        !.quantity = job[p].input.quantity,
                        !.totalAmount = job[p].input.totalAmount,
                        !.notes = NoNotes]
         ELSE t : t \in transactions }
  /\ pc' = [pc EXCEPT ![p] = "fetch"]
  /\ UNCHANGED <<stocks, stockAggregates, nextStockId, nextTxnId, now, foldLog,
                 lastCall, job, fetched, existing>>
  /\ UNCHANGED <<foldVars, twinVars, batchVars, reportVars>>

\* deleteTransaction up to its first await: the select by id
ConcDeleteLookup(p) ==
  /\ pc[p] = "idle"
  /\ \E id \in TxnIds :
       IF TxnById(transactions, id) = {}
       THEN /\ pc' = [pc EXCEPT ![p] = "failed"]
            /\ UNCHANGED job
       ELSE \E old \in TxnById(transactions, id) :
              /\ pc' = [pc EXCEPT ![p] = "delete"]
              /\ job' = [job EXCEPT ![p] =
                   [op |-> "delete", stockId |-> old.stockId, id |-> id]]
  /\ UNCHANGED <<storeVars, fetched, existing>>
  /\ UNCHANGED <<foldVars, twinVars, batchVars, reportVars>>

\* db.delete(transactions).where(eq(transactions.id, id))
ConcDeleteRow(p) ==
  /\ pc[p] = "delete"
  /\ transactions' = {t \in transactions : t.id # job[p].id}
  /\ pc' = [pc EXCEPT ![p] = "fetch"]
  /\ UNCHANGED <<stocks, stockAggregates, nextStockId, nextTxnId, now, foldLog,
                 lastCall, job, fetched, existing>>
  /\ UNCHANGED <<foldVars, twinVars, batchVars, reportVars>>

\* recomputeAggregates up to its first await: the ordered select (the replay
\* that follows it runs without an await and reads only txns)
ConcFetch(p) ==
  /\ pc[p] = "fetch"
  /\ \E txns \in OrderedByDateCreated(TxnsOfStock(transactions, job[p].stockId)) :
       fetched' = [fetched EXCEPT ![p] = txns]
  /\ pc' = [pc EXCEPT ![p] = "select"]
  /\ UNCHANGED <<storeVars, job, existing>>
  /\ UNCHANGED <<foldVars, twinVars, batchVars, reportVars>>

\* the select of the existing aggregate row
ConcSelectAggregate(p) ==
  /\ pc[p] = "select"
  /\ existing' = [existing EXCEPT ![p] = <<stockAggregates[job[p].stockId] # <<>> >>]
  /\ pc' = [pc EXCEPT ![p] = "persist"]
  /\ UNCHANGED <<storeVars, job, fetched>>
  /\ UNCHANGED <<foldVars, twinVars, batchVars, reportVars>>

\* the insert of the aggregate row giving only the share and cost columns of
\* the replay, the other two left at the column default
ConcInsertAggregateDefaults(p) ==
  /\ pc[p] = "persist"
  /\ existing[p] = <<FALSE>>
  /\ IF stockAggregates[job[p].stockId] = <<>>
     THEN /\ stockAggregates' = [stockAggregates EXCEPT
               ![job[p].stockId] =
                 <<[AggregateRow(Replay(fetched[p])) EXCEPT
                      !.avgCost = AggregateRow(ZeroState).avgCost,
                      !.realizedProfit = AggregateRow(ZeroState).realizedProfit]>>]
          /\ foldLog' = [foldLog EXCEPT ![job[p].stockId] =
               [i \in 1..Len(fetched[p]) |-> fetched[p][i].id]]
          /\ lastCall' = <<job[p].op, job[p].stockId, FALSE>>
          /\ Return(p, "done")
     ELSE /\ Return(p, "failed")
          /\ UNCHANGED <<stockAggregates, foldLog, lastCall>>
  /\ UNCHANGED <<stocks, transactions, nextStockId, nextTxnId>>
  /\ UNCHANGED <<foldVars, twinVars, batchVars, reportVars>>

\* the branch of recomputeAggregates that inserts the aggregate row; the
\* insert throws on the unique stockId when another request has inserted it
ConcInsertAggregate(p) ==
  /\ pc[p] = "persist"
  /\ existing[p] = <<FALSE>>
  /\ IF stockAggregates[job[p].stockId] = <<>>
     THEN /\ stockAggregates' = [stockAggregates EXCEPT
               ![job[p].stockId] = <<AggregateRow(Replay(fetched[p]))>>]
          /\ foldLog' = [foldLog EXCEPT ![job[p].stockId] =
               [i \in 1..Len(fetched[p]) |-> fetched[p][i].id]]
          /\ lastCall' = <<job[p].op, job[p].stockId, FALSE>>
          /\ Return(p, "done")
     ELSE /\ Return(p, "failed")
          /\ UNCHANGED <<stockAggregates, foldLog, lastCall>>
  /\ UNCHANGED <<stocks, transactions, nextStockId, nextTxnId>>
  /\ UNCHANGED <<foldVars, twinVars, batchVars, reportVars>>

\* the update of the aggregate row without its where clause: every row of
\* the table is set
ConcUpdateAggregateEveryRow(p) ==
  /\ pc[p] = "persist"
  /\ existing[p] = <<TRUE>>
  /\ stockAggregates' =
       [s \in StockIds |-> IF stockAggregates[s] = <<>> THEN <<>>
                           ELSE <<AggregateRow(Replay(fetched[p]))>>]
  /\ foldLog' = [foldLog EXCEPT ![job[p].stockId] =
       [i \in 1..Len(fetched[p]) |-> fetched[p][i].id]]
  /\ lastCall' = <<job[p].op, job[p].stockId, FALSE>>
  /\ Return(p, "done")
  /\ UNCHANGED <<stocks, transactions, nextStockId, nextTxnId>>
  /\ UNCHANGED <<foldVars, twinVars, batchVars, reportVars>>

\* the branch of recomputeAggregates that updates the aggregate row
ConcUpdateAggregate(p) ==
  /\ pc[p] = "persist"
  /\ existing[p] = <<TRUE>>
  /\ stockAggregates' = [stockAggregates EXCEPT
       ![job[p].stockId] = <<AggregateRow(Replay(fetched[p]))>>]
  /\ foldLog' = [foldLog EXCEPT ![job[p].stockId] =
       [i \in 1..Len(fetched[p]) |-> fetched[p][i].id]]
  /\ lastCall' = <<job[p].op, job[p].stockId, FALSE>>
  /\ Return(p, "done")
  /\ UNCHANGED <<stocks, transactions, nextStockId, nextTxnId>>
  /\ UNCHANGED <<foldVars, twinVars, batchVars, reportVars>>

\* the store failing in the middle of a recompute that leaves a zeroed row
ConcStoreFaultZeroes(p) ==
  /\ pc[p] \in {"fetch", "select", "persist"}
  /\ stockAggregates' =
       [stockAggregates EXCEPT ![job[p].stockId] = <<AggregateRow(ZeroState)>>]
  /\ Return(p, "faulted")
  /\ UNCHANGED <<stocks, transactions, nextStockId, nextTxnId, foldLog, lastCall>>
  /\ UNCHANGED <<foldVars, twinVars, batchVars, reportVars>>

\* the store failing at an await of recomputeAggregates (the ordered select,
\* the select of the aggregate row, or its insert or update): the rejected
\* promise is not caught, the call throws and the statement writes nothing
ConcStoreFault(p) ==
  /\ pc[p] \in {"fetch", "select", "persist"}
  /\ Return(p, "faulted")
  /\ UNCHANGED <<stocks, transactions, stockAggregates, nextStockId, nextTxnId,
                 foldLog, lastCall>>
  /\ UNCHANGED <<foldVars, twinVars, batchVars, reportVars>>

ConcNext ==
  \E p \in Procs :
    \/ ConcInsertTransaction(p)
    \/ ConcUpdateLookup(p)
    \/ ConcUpdateRow(p)
    \/ ConcDeleteLookup(p)
    \/ ConcDeleteRow(p)
    \/ ConcFetch(p)
    \/ ConcSelectAggregate(p)
    \/ ConcInsertAggregate(p)
    \/ ConcUpdateAggregate(p)
    \/ ConcStoreFault(p)

ConcSpec == ConcInit /\ [][ConcNext]_vars

(***************************************************************************)
(* Properties of the replay step (FoldSpec).                               *)
(***************************************************************************)
HasQuantity(t) == t.quantity # <<>>

\* C1: a SELL(qty, amount) removes cost at the running average:
\* costRemoved = avgCost(before) * qty, realizedProfit grows by
\* amount - costRemoved, shares fall by qty, invested falls by costRemoved,
\* and avgCost becomes invested/shares, or exactly 0 when no share is left.
\* Only the state before the sale and the sale itself enter the result.
SellRemovesCostAtAverage ==
  (txn.type = "SELL" /\ HasQuantity(txn)) =>
    LET qty         == Dec(txn.quantity[1])
        costRemoved == times(before.avgCost, qty)
    IN  /\ state.realizedProfit =
             plus(before.realizedProfit, minus(Dec(txn.totalAmount), costRemoved))
        /\ state.totalShares = minus(before.totalShares, qty)
        /\ state.totalInvested = minus(before.totalInvested, costRemoved)
        /\ state.avgCost = IF isZero(state.totalShares) THEN DZero
                           ELSE dividedBy(state.totalInvested, state.totalShares)

\* a sale of part of a holding whose average cost does not terminate
\* (100/3 after BUY 3 for 100), leaving shares behind
SellAtRunningAverage ==
  /\ txn.type = "SELL" /\ HasQuantity(txn)
  /\ Len(before.avgCost.d) = DecimalPrecision
  /\ ~isZero(state.totalShares) /\ ~isNeg(state.totalShares)
  /\ state.avgCost # before.avgCost

\* C2 as stated: a BUY(qty, amount), qty > 0, gives shares + qty,
\* invested + amount, avgCost = invested'/shares' (a quotient, so shares' # 0)
\* and the same realizedProfit.
BuyAverageIsQuotient ==
  (txn.type = "BUY" /\ HasQuantity(txn)) =>
    /\ state.totalShares = plus(before.totalShares, Dec(txn.quantity[1]))
    /\ state.totalInvested = plus(before.totalInvested, Dec(txn.totalAmount))
    /\ ~isZero(state.totalShares)
    /\ state.avgCost = dividedBy(state.totalInvested, state.totalShares)
    /\ state.realizedProfit = before.realizedProfit

\* C2 amended: a BUY(qty, amount), qty > 0, gives shares + qty,
\* invested + amount, the same realizedProfit, and avgCost = invested'/shares'
\* when shares' # 0, exactly 0 when shares' = 0 (a BUY onto shares = -qty).
BuyAddsSharesAndCost ==
  (txn.type = "BUY" /\ HasQuantity(txn)) =>
    /\ state.totalShares = plus(before.totalShares, Dec(txn.quantity[1]))
    /\ state.totalInvested = plus(before.totalInvested, Dec(txn.totalAmount))
    /\ state.avgCost = IF isZero(state.totalShares) THEN DZero
                       ELSE dividedBy(state.totalInvested, state.totalShares)
    /\ state.realizedProfit = before.realizedProfit

\* a second BUY blending into a holding, at an average that does not terminate
BuyBlendsIntoHolding ==
  /\ txn.type = "BUY" /\ HasQuantity(txn)
  /\ ~isZero(before.totalShares) /\ ~isNeg(before.totalShares)
  /\ Len(state.avgCost.d) = DecimalPrecision
  /\ state.avgCost # before.avgCost

\* C3: an INCOME/DIVIDEND(amount) adds amount to realizedProfit and leaves
\* shares, invested and avgCost as they were.
DividendOnlyAddsProfit ==
  txn.type = "DIVIDEND" =>
    /\ state.realizedProfit = plus(before.realizedProfit, Dec(txn.totalAmount))
    /\ state.totalShares = before.totalShares
    /\ state.totalInvested = before.totalInvested
    /\ state.avgCost = before.avgCost

\* two consecutive dividends on a holding
TwoDividendsInARow ==
  /\ Len(hist) >= 3
  /\ hist[Len(hist)].type = "DIVIDEND"
  /\ hist[Len(hist) - 1].type = "DIVIDEND"
  /\ ~isZero(state.totalShares)
  /\ ~isZero(before.realizedProfit)

\* C10: a SELL of exactly totalShares (> 0) leaves totalShares = 0,
\* totalInvested = 0 and averageCost = 0 exactly.
SellAllZeroesPosition ==
  (/\ txn.type = "SELL" /\ HasQuantity(txn)
   /\ ~isZero(before.totalShares) /\ ~isNeg(before.totalShares)
   /\ Dec(txn.quantity[1]) = before.totalShares) =>
    /\ isZero(state.totalShares)
    /\ isZero(state.totalInvested)
    /\ isZero(state.avgCost)

(***************************************************************************)
(* Properties of the mutations and the recompute (Spec, TwinSpec).         *)
(***************************************************************************)
\* the aggregate rows a full replay of the stored transactions of s can give
FullReplayRows(s) ==
  { AggregateRow(Replay(o)) :
      o \in OrderedByDateCreated(TxnsOfStock(transactions, s)) }

\* C4: with one call at a time, after every createStock, addTransaction,
\* updateTransaction and deleteTransaction the persisted aggregate of every
\* stock that is registered or has transactions is the replay, from zero,
\* of the transactions stored for it (the zero row when it has none).
AggregateIsFullReplay ==
  \A s \in StockIds :
    (s \in stocks \/ TxnsOfStock(transactions, s) # {}) =>
      /\ stockAggregates[s] # <<>>
      /\ stockAggregates[s][1] \in FullReplayRows(s)

\* a delete has returned, leaving a holding behind
AggregateAfterDelete ==
  \E s \in StockIds :
    /\ lastCall = <<"deleteTransaction", s, FALSE>>
    /\ TxnsOfStock(transactions, s) # {}
    /\ stockAggregates[s] # <<>>
    /\ ~isZero(stockAggregates[s][1].totalShares)

\* C7: once the extra transaction of stock 1 has been deleted, stock 1 has
\* the aggregate of stock 2, which never had it.
DeletionSymmetry ==
  (mode = "extra" /\ settled /\ pending = <<>>) =>
    stockAggregates[1] = stockAggregates[2]

\* the deleted transaction was not the last in the replay order, and the
\* position that is left is not empty
DeletedFromTheMiddle ==
  /\ mode = "extra" /\ settled /\ pending = <<>>
  /\ ~isZero(stockAggregates[1][1].totalShares)
  /\ \E t \in TxnsOfStock(transactions, 1) : t.id > marked /\ t.date = MaxDate
  /\ \E t \in TxnsOfStock(transactions, 1) : t.id < marked

\* C8: once the transaction of stock 1 has been edited, stock 1 has the
\* aggregate of stock 2, where it was entered with the edited values in the
\* same place of the insertion sequence.
EditEquivalence ==
  (mode = "edit" /\ settled /\ pending = <<>>) =>
    stockAggregates[1] = stockAggregates[2]

\* the edit moved a purchase before a later entered SELL, which is re-costed
EditRecostsLaterSell ==
  /\ mode = "edit" /\ settled /\ pending = <<>>
  /\ \E t \in TxnsOfStock(transactions, 1) :
       /\ t.id = marked /\ t.type = "BUY" /\ t.date < MaxDate
       /\ \E u \in TxnsOfStock(transactions, 1) :
            u.id > marked /\ u.type = "SELL" /\ u.date = MaxDate
  /\ ~isZero(stockAggregates[1][1].realizedProfit)

\* C9: a recompute of a stock that directly follows a recompute of the same
\* stock leaves the four values of its aggregate as the first one left them.
RecomputeIsIdempotent ==
  [][\A s \in StockIds :
       (/\ lastCall[1] = "recomputeAggregates" /\ lastCall[2] = s
        /\ lastCall'[1] = "recomputeAggregates" /\ lastCall'[2] = s)
       => stockAggregates'[s] = stockAggregates[s]]_vars

\* the second of two recomputes of a stock that holds shares has returned
RecomputedTwice ==
  \E s \in StockIds :
    /\ lastCall = <<"recomputeAggregates", s, TRUE>>
    /\ stockAggregates[s] # <<>>
    /\ ~isZero(stockAggregates[s][1].totalShares)
    /\ ~isZero(stockAggregates[s][1].realizedProfit)

(***************************************************************************)
(* Properties of requests in flight together (ConcSpec).                   *)
(***************************************************************************)
\* C5: every recompute folds the transactions of a stock in ascending date,
\* and those of one date in ascending insertion sequence (the serial id).
FetchedInInsertionOrder ==
  \A p \in Procs :
    \A i \in 1..Len(fetched[p]), j \in 1..Len(fetched[p]) : i < j =>
      \/ fetched[p][i].date < fetched[p][j].date
      \/ /\ fetched[p][i].date = fetched[p][j].date
         /\ fetched[p][i].id < fetched[p][j].id

\* C6: once every request has returned, the persisted aggregate of every
\* stock that is registered or has transactions is the replay of the
\* transactions stored for it.
NoLostUpdate ==
  (\A p \in Procs : pc[p] = "done") =>
    \A s \in StockIds :
      (s \in stocks \/ TxnsOfStock(transactions, s) # {}) =>
        /\ stockAggregates[s] # <<>>
        /\ stockAggregates[s][1] \in FullReplayRows(s)

(***************************************************************************)
(* Properties of the replay of whole histories (FoldSpec).                 *)
(***************************************************************************)
\* costRemoved of the i-th transaction of hist, a SELL
CostRemovedAt(i) ==
  times(Replay(SubSeq(hist, 1, i - 1)).avgCost, QuantityOf(hist[i]))

\* BUY amounts minus costRemoved values over hist[1..i], without rounding
RECURSIVE ExactLedger(_)
ExactLedger(i) ==
  IF i = 0 THEN DZero
  ELSE LET r == ExactLedger(i - 1)
           x == IF hist[i].type = "BUY"
                  THEN ExactSum(r, Dec(hist[i].totalAmount))
                ELSE IF hist[i].type = "SELL"
                  THEN ExactSum(r, Negated(CostRemovedAt(i)))
                ELSE r
       IN  Norm(x.neg, x.d, x.e)

\* the same, each addition and subtraction a Decimal plus or minus, taken
\* in the order of the history
RECURSIVE RunningLedger(_)
RunningLedger(i) ==
  IF i = 0 THEN DZero
  ELSE IF hist[i].type = "BUY"
    THEN plus(RunningLedger(i - 1), Dec(hist[i].totalAmount))
  ELSE IF hist[i].type = "SELL"
    THEN minus(RunningLedger(i - 1), CostRemovedAt(i))
  ELSE RunningLedger(i - 1)

\* C11 as stated: after any prefix of the history, totalInvested is the sum
\* of the BUY amounts minus the sum of the costRemoved values of the SELLs.
InvestedIsExactLedger ==
  state.totalInvested = ExactLedger(Len(hist))

\* C11 amended: after any prefix of the history, totalInvested is the BUY
\* amounts added and the costRemoved values subtracted in the order of the
\* history, every addition and subtraction rounded to DecimalPrecision
\* significant digits.
InvestedIsRunningLedger ==
  state.totalInvested = RunningLedger(Len(hist))

\* a BUY, a SELL at an average that does not terminate, and a third
\* transaction that changes the cost basis again
LedgerOfBuysAndSells ==
  /\ Len(hist) = 3
  /\ hist[1].type = "BUY" /\ hist[2].type = "SELL" /\ hist[3].type # "DIVIDEND"
  /\ Len(CostRemovedAt(2).d) = DecimalPrecision
  /\ state.totalInvested # before.totalInvested

\* C13: after the replay of any history, totalShares = 0 implies
\* avgCost = 0 and totalInvested = 0.
ZeroSharesZeroBasis ==
  isZero(state.totalShares) =>
    /\ isZero(state.avgCost)
    /\ isZero(state.totalInvested)

\* C14: in every state of the replay from the zero state, avgCost is
\* totalInvested / totalShares when totalShares is not 0, and exactly 0
\* when it is; a DIVIDEND keeps the relation.
AverageIsQuotient ==
  state.avgCost = IF isZero(state.totalShares) THEN DZero
                  ELSE dividedBy(state.totalInvested, state.totalShares)

\* a DIVIDEND folded onto a holding whose average does not terminate
DividendOnBlendedHolding ==
  /\ txn.type = "DIVIDEND"
  /\ ~isZero(state.totalShares)
  /\ Len(state.avgCost.d) = DecimalPrecision
  /\ state.realizedProfit # before.realizedProfit

(***************************************************************************)
(* Properties of the persisted aggregates and of the calls (Spec).         *)
(***************************************************************************)
\* C12: in every state that add, update and delete calls reach, every
\* persisted aggregate has totalShares >= 0, totalInvested >= 0 and
\* avgCost >= 0.
AggregateNonNegative ==
  \A s \in StockIds :
    stockAggregates[s] # <<>> =>
      /\ ~isNeg(stockAggregates[s][1].totalShares)
      /\ ~isNeg(stockAggregates[s][1].totalInvested)
      /\ ~isNeg(stockAggregates[s][1].avgCost)


\* C15: a BUY or SELL without a (positive) quantity is rejected by the
\* mutation: it is never stored, so no replay folds it with quantity 0 and
\* no aggregate changes because of it.
QuantityFaultRejected ==
  \A t \in transactions : t.type \in {"BUY", "SELL"} => HasQuantity(t)


\* C25: every stored transaction has a quantity if and only if it is a BUY
\* or a SELL, after any sequence of add and update calls.
QuantityIffTrade ==
  \A t \in transactions : HasQuantity(t) <=> t.type \in {"BUY", "SELL"}


\* the quantities bought minus the quantities sold over the rows
RECURSIVE NetQuantity(_)
NetQuantity(rows) ==
  IF rows = {} THEN 0
  ELSE LET t == CHOOSE r \in rows : TRUE
           q == IF t.quantity = <<>> THEN 0 ELSE t.quantity[1]
       IN  NetQuantity(rows \ {t}) +
             (IF t.type = "BUY" THEN q ELSE IF t.type = "SELL" THEN 0 - q ELSE 0)

\* C16: a SELL of more shares than are held is folded like any other SELL:
\* after every add, update and recompute the persisted totalShares is the
\* quantity bought minus the quantity sold, negative when more was sold.
OversellIsApplied ==
  \A s \in StockIds :
    stockAggregates[s] # <<>> =>
      stockAggregates[s][1].totalShares =
        Dec(NetQuantity(TxnsOfStock(transactions, s)))

\* an add, an update or a recompute has returned with a negative share count
OversoldAfterCall ==
  \E s \in StockIds :
    /\ lastCall[1] \in {"addTransaction", "updateTransaction", "recomputeAggregates"}
    /\ lastCall[2] = s
    /\ stockAggregates[s] # <<>>
    /\ isNeg(stockAggregates[s][1].totalShares)
    /\ \E t \in TxnsOfStock(transactions, s) : t.type = "BUY" /\ HasQuantity(t)


\* C17: a recompute called with the id of a stock that was never registered
\* reports not-found and creates no aggregate row for that id.
RecomputeNeedsRegisteredStock ==
  \A s \in StockIds :
    (lastCall[1] = "recomputeAggregates" /\ lastCall[2] = s /\ s \notin stocks)
      => getStockAggregates(s) = <<>>


(***************************************************************************)
(* Properties of store failures (ConcSpec).                                *)
(***************************************************************************)
\* C18: a recompute that the store fails at any of its steps throws and
\* leaves the persisted aggregates as they were: a row changes only in the
\* last step of a recompute that succeeds, as one whole-row write.
AggregateChangesOnlyOnSuccess ==
  [][stockAggregates' # stockAggregates =>
       \E p \in Procs : pc[p] = "persist" /\ pc'[p] = "done"]_vars

\* the recompute of an addTransaction has failed after its insert: the row
\* of the stock is the earlier, non-zero one, not the replay of the store
FaultKeepsPreviousRow ==
  \E p \in Procs :
    /\ pc[p] = "faulted"
    /\ \A q \in Procs \ {p} : pc[q] = "idle"
    /\ Cardinality(TxnsOfStock(transactions, 1)) = 2
    /\ ~isZero(stockAggregates[1][1].totalShares)
    /\ stockAggregates[1][1] \notin FullReplayRows(1)


\* request p is inside a call (its job is set)
InCall(p) == pc[p] \in {"update", "delete", "fetch", "select", "persist"}

\* C27: a step of a call for one stock, be it the insert, update or delete
\* of the transaction or a step of the recompute, leaves the transactions
\* and the aggregate row of every other stock as they were, whatever other
\* calls are in flight.
OtherStocksUntouched ==
  [][\A p \in Procs :
       pc'[p] # pc[p] =>
         \A b \in StockIds :
           \/ InCall(p) /\ job[p].stockId = b
           \/ ~InCall(p) /\ pc'[p] \in {"update", "delete", "fetch"} /\ job'[p].stockId = b
           \/ /\ TxnsOfStock(transactions', b) = TxnsOfStock(transactions, b)
              /\ stockAggregates'[b] = stockAggregates[b]]_vars

\* a call for stock 2 has gone from its insert to its return while a call
\* for stock 1 was between its insert and the write of its aggregate row
CallsOnTwoStocksInterleaved ==
  \E p, q \in Procs :
    /\ pc[p] = "persist" /\ job[p].stockId = 1 /\ job[p].op = "add"
    /\ pc[q] = "done"
    /\ lastCall = <<"add", 2, FALSE>>
    /\ stockAggregates[2] # <<>>
    /\ \E t \in transactions, u \in transactions :
         t.stockId = 1 /\ u.stockId = 2 /\ t.id < u.id

\* C28: with recomputes of one stock interleaved, every list a recompute
\* holds is, when it is read, an ordering of the transactions stored for
\* the stock at that moment, and every change of an aggregate row is made by
\* a recompute of that stock and sets all four columns to the replay of the
\* list that recompute holds: a row is never patched and never mixes two
\* replays.
RowIsOneReplayOfStoredSet ==
  [][/\ \A p \in Procs :
          fetched'[p] # fetched[p] =>
            \/ fetched'[p] = <<>>
            \/ /\ pc[p] = "fetch"
               /\ fetched'[p] \in
                    OrderedByDateCreated(TxnsOfStock(transactions, job[p].stockId))
     /\ \A s \in StockIds :
          stockAggregates'[s] # stockAggregates[s] =>
            \E p \in Procs :
              /\ pc[p] = "persist"
              /\ job[p].stockId = s
              /\ stockAggregates'[s] = <<AggregateRow(Replay(fetched[p]))>>]_vars

\* every request has returned and the row of stock 1 is the replay of a list
\* read before the last change of its transactions: neither zero nor a
\* replay of what is stored now
StaleReplayPersisted ==
  /\ \A p \in Procs : pc[p] = "done"
  /\ stockAggregates[1] # <<>>
  /\ stockAggregates[1][1] # AggregateRow(ZeroState)
  /\ stockAggregates[1][1] \notin FullReplayRows(1)

(***************************************************************************)
(* BatchSpec: recomputeAllAggregates, one iteration of its loop per step,  *)
(* on two registered stocks whose rows may be out of date because the      *)
(* recompute of an earlier addTransaction failed.  One call at a time.     *)
(***************************************************************************)
BatchInit ==
  /\ FoldInit /\ TwinIdle /\ ConcIdle /\ BatchIdle /\ ReportIdle
  /\ stocks = {1, 2}
  /\ transactions = {}
  /\ stockAggregates =
       [s \in StockIds |-> IF s \in {1, 2} THEN <<AggregateRow(ZeroState)>> ELSE <<>>]
  /\ nextStockId = 3
  /\ nextTxnId = 1
  /\ now = 1
  /\ foldLog = [s \in StockIds |-> <<>>]
  /\ lastCall = <<"createStock", 2, FALSE>>

BatchAddTransaction ==
  /\ ~batch.running
  /\ nextTxnId <= MaxTxns
  /\ \E stockId \in stocks, input \in TxnInputs, date \in Dates :
       addTransaction(stockId, input, date, "")
  /\ UNCHANGED <<foldVars, twinVars, concVars, batchVars, reportVars>>

\* addTransaction whose insert succeeds and whose recompute the store fails:
\* the call throws with the row stored and the aggregate as it was
BatchAddTransactionFaulted ==
  /\ ~batch.running
  /\ nextTxnId <= MaxTxns
  /\ \E stockId \in stocks, input \in TxnInputs, date \in Dates :
       /\ transactions' = transactions \cup
            {[id |-> nextTxnId, stockId |-> stockId, type |-> input.type,
              date |-> date, quantity |-> input.quantity,
              totalAmount |-> input.totalAmount, notes |-> NoNotes,
              createdAt |-> now]}
       /\ lastCall' = <<"addTransaction", stockId, FALSE>>
  /\ nextTxnId' = nextTxnId + 1
  /\ now' = now + 1
  /\ UNCHANGED <<stocks, stockAggregates, nextStockId, foldLog>>
  /\ UNCHANGED <<foldVars, twinVars, concVars, batchVars, reportVars>>

\* recomputeAllAggregates up to its loop: allStocks = await getAllStocks()
RecomputeAllBegin ==
  /\ ~batch.running
  /\ batch' = [running |-> TRUE, todo |-> stocks, count |-> Cardinality(stocks),
               failed |-> {},
               stale |-> {s \in stocks :
                            \/ stockAggregates[s] = <<>>
                            \/ stockAggregates[s][1] \notin FullReplayRows(s)},
               result |-> <<>>]
  /\ UNCHANGED <<storeVars, foldVars, twinVars, concVars, reportVars>>

\* an iteration whose recomputeAggregates(stock.id) returns
RecomputeAllStep ==
  /\ batch.running
  /\ \E s \in batch.todo :
       /\ recomputeAggregates(transactions, s)
       /\ batch' = [batch EXCEPT !.todo = batch.todo \ {s}]
  /\ UNCHANGED <<stocks, transactions, nextStockId, nextTxnId, now, lastCall>>
  /\ UNCHANGED <<foldVars, twinVars, concVars, reportVars>>

\* an iteration whose error ends the loop instead of being caught
RecomputeAllRethrow ==
  /\ batch.running
  /\ \E s \in batch.todo :
       batch' = [batch EXCEPT !.todo = {}, !.failed = batch.failed \cup {s}]
  /\ UNCHANGED <<storeVars, foldVars, twinVars, concVars, reportVars>>

\* an iteration whose recomputeAggregates(stock.id) throws: the catch block
\* logs the error and the loop goes on
RecomputeAllCatch ==
  /\ batch.running
  /\ \E s \in batch.todo :
       batch' = [batch EXCEPT !.todo = batch.todo \ {s},
                              !.failed = batch.failed \cup {s}]
  /\ UNCHANGED <<storeVars, foldVars, twinVars, concVars, reportVars>>

\* return { message: `Recomputed aggregates for ${allStocks.length} stocks` }
RecomputeAllReturn ==
  /\ batch.running
  /\ batch.todo = {}
  /\ batch' = [batch EXCEPT !.running = FALSE,
                            !.result = <<[message |-> batch.count]>>]
  /\ lastCall' = <<"recomputeAllAggregates", 0, FALSE>>
  /\ UNCHANGED <<stocks, transactions, stockAggregates, nextStockId, nextTxnId,
                 now, foldLog>>
  /\ UNCHANGED <<foldVars, twinVars, concVars, reportVars>>

BatchNext ==
  \/ BatchAddTransaction
  \/ BatchAddTransactionFaulted
  \/ RecomputeAllBegin
  \/ RecomputeAllStep
  \/ RecomputeAllCatch
  \/ RecomputeAllReturn

BatchSpec == BatchInit /\ [][BatchNext]_vars

\* recomputeAllAggregates is the last call that returned
RecomputeAllReturned ==
  ~batch.running /\ lastCall[1] = "recomputeAllAggregates"

\* C19: when recomputeAllAggregates has returned, it has returned a value,
\* and every registered stock whose recompute did not throw has been
\* recomputed: its row is the replay of its transactions.
BatchIsolatesFailures ==
  RecomputeAllReturned =>
    /\ batch.result # <<>>
    /\ \A s \in stocks \ batch.failed :
         /\ stockAggregates[s] # <<>>
         /\ stockAggregates[s][1] \in FullReplayRows(s)

\* the recompute of stock 1 failed, and stock 2, whose row was out of date,
\* has been recomputed all the same
OtherStockRecomputed ==
  /\ RecomputeAllReturned
  /\ batch.failed = {1}
  /\ 2 \in batch.stale
  /\ ~isZero(stockAggregates[2][1].totalShares)

\* C20: the value recomputeAllAggregates returns has a success count, the
\* number of stocks whose recompute succeeded, and an error list with one
\* entry for each stock whose recompute failed.
BatchResultReportsOutcome ==
  RecomputeAllReturned =>
    /\ batch.result # <<>>
    /\ {"succeeded", "errors"} \subseteq DOMAIN batch.result[1]
    /\ batch.result[1].succeeded = Cardinality(stocks \ batch.failed)
    /\ {e.stockId : e \in batch.result[1].errors} = batch.failed


(***************************************************************************)
(* The daywise report.  from and to are the days                           *)
(* input.from.toISOString().split("T")[0] and the same of input.to;        *)
(* stockId is <<>> when input.stockId is absent.  A bucket of profitByDate *)
(* is [profit, losses], profit a Number; a loss record is                  *)
(* [stockId, stockSymbol, quantity, unitPrice, avgCost, totalAmount,       *)
(* loss], its last five fields Numbers.  The symbol of stock s is written  *)
(* <<s>>, and <<>> is "Unknown".                                           *)
(***************************************************************************)
\* where(and(lte(transactions.date, to), input.stockId ? eq(...) : undefined))
daywiseRows(txs, to, stockId) ==
  {t \in txs : /\ t.date <= to
               /\ (stockId = <<>> \/ stockId[1] = 0 \/ t.stockId = stockId[1])}

\* stockStates before the loop: an absent entry is the zero state the loop
\* creates on the first transaction of a stock
NoStockStates ==
  [s \in StockIds |-> [totalShares |-> Dec(0), totalInvested |-> Dec(0), avgCost |-> Dec(0)]]

\* profitByDate[date], created as { profit: 0, losses: [] } when absent
BucketOf(profitByDate, date) ==
  IF date \in DOMAIN profitByDate THEN profitByDate[date]
  ELSE [profit |-> NZero, losses |-> <<>>]

WithBucket(profitByDate, date, bucket) ==
  [d \in DOMAIN profitByDate \cup {date} |-> IF d = date THEN bucket ELSE profitByDate[d]]

\* the booking of an in-range SELL without the test profitValue < 0: every
\* sale gets a loss record
daywiseSellLossAnySale(profitByDate, stockState, t) ==
  LET qty         == Dec(t.quantity[1])
      proceeds    == Dec(t.totalAmount)
      costBasis   == times(stockState.avgCost, qty)
      profit      == minus(proceeds, costBasis)
      profitValue == parseFloat(profit)
      bucket      == BucketOf(profitByDate, t.date)
      loss        == [stockId |-> t.stockId,
                      stockSymbol |-> IF t.stockId \in stocks THEN <<t.stockId>> ELSE <<>>,
                      quantity |-> parseFloat(qty),
                      unitPrice |-> parseFloat(dividedBy(proceeds, qty)),
                      avgCost |-> parseFloat(stockState.avgCost),
                      totalAmount |-> parseFloat(proceeds),
                      loss |-> profitValue]
  IN  WithBucket(profitByDate, t.date,
        [profit |-> NumberAdd(bucket.profit, profitValue),
         losses |-> Append(bucket.losses, loss)])

\* the part of an iteration that books an in-range SELL with a quantity
daywiseSell(profitByDate, stockState, t) ==
  LET qty         == Dec(t.quantity[1])
      proceeds    == Dec(t.totalAmount)
      costBasis   == times(stockState.avgCost, qty)
      profit      == minus(proceeds, costBasis)
      profitValue == parseFloat(profit)
      bucket      == BucketOf(profitByDate, t.date)
      loss        == [stockId |-> t.stockId,
                      stockSymbol |-> IF t.stockId \in stocks THEN <<t.stockId>> ELSE <<>>,
                      quantity |-> parseFloat(qty),
                      unitPrice |-> parseFloat(dividedBy(proceeds, qty)),
                      avgCost |-> parseFloat(stockState.avgCost),
                      totalAmount |-> parseFloat(proceeds),
                      loss |-> profitValue]
  IN  WithBucket(profitByDate, t.date,
        [profit |-> NumberAdd(bucket.profit, profitValue),
         losses |-> IF NumberIsNeg(profitValue) THEN Append(bucket.losses, loss)
                    ELSE bucket.losses])

\* the part of an iteration that books an in-range DIVIDEND
daywiseDividend(profitByDate, t) ==
  LET dividendAmount == parseFloat(Dec(t.totalAmount))
      bucket         == BucketOf(profitByDate, t.date)
  IN  WithBucket(profitByDate, t.date,
        [bucket EXCEPT !.profit = NumberAdd(bucket.profit, dividendAmount)])

\* one iteration of the loop over allTxns; acc is [stockStates, profitByDate]
daywiseStep(acc, t, from, to) ==
  LET stockState == acc.stockStates[t.stockId]
      isInRange == t.date >= from /\ t.date <= to
      newState  == processTransaction(
                     [totalShares |-> stockState.totalShares,
                      totalInvested |-> stockState.totalInvested,
                      avgCost |-> stockState.avgCost,
                      realizedProfit |-> Dec(0)], t)
  IN  [stockStates |->
         [acc.stockStates EXCEPT ![t.stockId] =
            [totalShares |-> newState.totalShares,
             totalInvested |-> newState.totalInvested,
             avgCost |-> newState.avgCost]],
       profitByDate |->
         IF t.type = "SELL" /\ t.quantity # <<>> /\ isInRange
         THEN daywiseSell(acc.profitByDate, stockState, t)
         ELSE IF t.type = "DIVIDEND" /\ isInRange
         THEN daywiseDividend(acc.profitByDate, t)
         ELSE acc.profitByDate]

RECURSIVE daywiseLoop(_, _, _, _, _)
daywiseLoop(acc, allTxns, i, from, to) ==
  IF i > Len(allTxns) THEN acc
  ELSE daywiseLoop(daywiseStep(acc, allTxns[i], from, to), allTxns, i + 1, from, to)

\* the entries sorted by date with the comparison reversed
SortedByDateDescending(profitByDate) ==
  LET ds == DOMAIN profitByDate
      n  == Cardinality(ds)
      o  == CHOOSE f \in [1..n -> ds] : \A i, j \in 1..n : i < j => f[i] > f[j]
  IN  [i \in 1..n |-> [date |-> o[i], profit |-> profitByDate[o[i]].profit,
                       losses |-> profitByDate[o[i]].losses]]

\* Object.entries(profitByDate).map(...).sort(by date)
SortedByDate(profitByDate) ==
  LET ds == DOMAIN profitByDate
      n  == Cardinality(ds)
      o  == CHOOSE f \in [1..n -> ds] : \A i, j \in 1..n : i < j => f[i] < f[j]
  IN  [i \in 1..n |-> [date |-> o[i], profit |-> profitByDate[o[i]].profit,
                       losses |-> profitByDate[o[i]].losses]]

\* daywise on the rows allTxns the query returned
daywiseOf(allTxns, from, to) ==
  SortedByDate(daywiseLoop([stockStates |-> NoStockStates, profitByDate |-> <<>>],
                           allTxns, 1, from, to).profitByDate)

\* the arrays daywise can return on the table txs
daywise(txs, from, to, stockId) ==
  {daywiseOf(allTxns, from, to) :
     allTxns \in OrderedByDateCreated(daywiseRows(txs, to, stockId))}

(***************************************************************************)
(* ReportSpec: two registered stocks, the first holding 3 shares bought    *)
(* for 100 on day 1, and one client that makes one call at a time: it adds *)
(* a transaction, or runs a daywise query and reads the array returned     *)
(* before its next call.                                                   *)
(***************************************************************************)
ReportInputs ==
  { [type |-> "BUY", quantity |-> <<3>>, totalAmount |-> 100],
    [type |-> "BUY", quantity |-> <<1>>, totalAmount |-> 250],
    [type |-> "SELL", quantity |-> <<1>>, totalAmount |-> 100],
    [type |-> "SELL", quantity |-> <<3>>, totalAmount |-> 250],
    [type |-> "DIVIDEND", quantity |-> <<>>, totalAmount |-> 100] }

StockFilters == {<<>>} \cup {<<s>> : s \in StockIds}

FirstPurchase ==
  [id |-> 1, stockId |-> 1, type |-> "BUY", date |-> 1, quantity |-> <<3>>,
   totalAmount |-> 100, notes |-> NoNotes, createdAt |-> 1]

ReportInit ==
  /\ FoldInit /\ TwinIdle /\ ConcIdle /\ BatchIdle /\ ReportIdle
  /\ stocks = {1, 2}
  /\ transactions = {FirstPurchase}
  /\ stockAggregates =
       [s \in StockIds |->
          IF s = 1 THEN <<AggregateRow(Replay(<<FirstPurchase>>))>>
          ELSE IF s = 2 THEN <<AggregateRow(ZeroState)>> ELSE <<>>]
  /\ nextStockId = 3
  /\ nextTxnId = 2
  /\ now = 2
  /\ foldLog = [s \in StockIds |-> IF s = 1 THEN <<1>> ELSE <<>>]
  /\ lastCall = <<"addTransaction", 1, FALSE>>

ReportAddTransaction ==
  /\ ~report.called
  /\ nextTxnId <= MaxReportTxns
  /\ \E stockId \in stocks, input \in ReportInputs, date \in Dates :
       addTransaction(stockId, input, date, "")
  /\ UNCHANGED <<foldVars, twinVars, concVars, batchVars, reportVars>>

Daywise ==
  /\ ~report.called
  /\ \E from \in Dates, to \in Dates, stockId \in StockFilters :
       \E result \in daywise(transactions, from, to, stockId) :
         report' = [called |-> TRUE, from |-> from, to |-> to,
                    stockId |-> stockId, result |-> result]
  /\ UNCHANGED <<storeVars, foldVars, twinVars, concVars, batchVars>>

\* the client is done with the array
DaywiseRead ==
  /\ report.called
  /\ report' = [called |-> FALSE, from |-> 0, to |-> 0, stockId |-> <<>>,
                result |-> <<>>]
  /\ UNCHANGED <<storeVars, foldVars, twinVars, concVars, batchVars>>

ReportNext ==
  \/ ReportAddTransaction
  \/ Daywise
  \/ DaywiseRead

ReportSpec == ReportInit /\ [][ReportNext]_vars


(***************************************************************************)
(* Properties of the daywise report (ReportSpec).                          *)
(***************************************************************************)
\* the transactions of the stock of t in replay order (one call at a time:
\* no two rows share a createdAt)
HistoryOf(txs, t) ==
  CHOOSE o \in OrderedByDateCreated(TxnsOfStock(txs, t.stockId)) : TRUE

\* the average cost the ledger replay has reached just before t
AvgCostBefore(txs, t) ==
  LET o == HistoryOf(txs, t)
      i == CHOOSE k \in 1..Len(o) : o[k] = t
  IN  Replay(SubSeq(o, 1, i - 1)).avgCost

\* what t adds to the profit of its date: amount - avgCostBefore * quantity
\* for a SELL, the amount for a DIVIDEND, nothing for a BUY
RealizedBy(txs, t) ==
  IF t.type = "SELL"
  THEN minus(Dec(t.totalAmount), times(AvgCostBefore(txs, t), QuantityOf(t)))
  ELSE IF t.type = "DIVIDEND" THEN Dec(t.totalAmount)
  ELSE Dec(0)

\* the transactions a query for stockId selects
Selected(txs, stockId) ==
  {t \in txs : stockId = <<>> \/ t.stockId = stockId[1]}

\* the SELLs and DIVIDENDs dated d among rows
EventsOn(rows, d) == {t \in rows : t.date = d /\ t.type \in {"SELL", "DIVIDEND"}}

\* the sum, in decimal and unrounded, of RealizedBy over rows
RECURSIVE DecimalSum(_, _)
DecimalSum(txs, rows) ==
  IF rows = {} THEN Dec(0)
  ELSE LET t == CHOOSE r \in rows : TRUE
       IN  ExactSum(RealizedBy(txs, t), DecimalSum(txs, rows \ {t}))

\* C21: the profit of every bucket daywise returns is the sum, over the
\* selected stocks, of amount - avgCostBefore * quantity for each SELL of
\* its date and of the amount of each DIVIDEND of its date (as the Number
\* nearest to that decimal sum).
BucketProfitIsDecimalSum ==
  report.called =>
    \A i \in 1..Len(report.result) :
      LET b == report.result[i]
      IN  b.profit = parseFloat(DecimalSum(transactions,
                       EventsOn(Selected(transactions, report.stockId), b.date)))


\* the SELLs dated d among rows whose amount - avgCostBefore * quantity is
\* negative
LossSalesOn(rows, d) ==
  {t \in rows : /\ t.date = d
                /\ t.type = "SELL"
                /\ RealizedBy(transactions, t).neg
                /\ ~isZero(RealizedBy(transactions, t))}

\* the loss detail the sale t is to have, as Numbers
LossDetailOf(t) ==
  [stockId |-> t.stockId,
   loss |-> parseFloat(RealizedBy(transactions, t)),
   unitPrice |-> parseFloat(dividedBy(Dec(t.totalAmount), QuantityOf(t))),
   avgCost |-> parseFloat(AvgCostBefore(transactions, t))]

\* the loss details of the bucket dated d of the array returned, none when
\* there is no such bucket
LossesReportedOn(d) ==
  LET is == {i \in 1..Len(report.result) : report.result[i].date = d}
  IN  IF is = {} THEN <<>>
      ELSE LET l == report.result[CHOOSE i \in is : TRUE].losses
           IN  [k \in 1..Len(l) |->
                  [stockId |-> l[k].stockId, loss |-> l[k].loss,
                   unitPrice |-> l[k].unitPrice, avgCost |-> l[k].avgCost]]

\* C29: the loss details daywise returns for a date of the window are, in
\* replay order, one for each selected SELL of that date whose
\* amount - avgCostBefore * quantity is negative, with that amount as loss,
\* amount / quantity as unitPrice and the replay's average cost before the
\* sale as avgCost; other sales, DIVIDENDs and BUYs give no loss detail and
\* dates outside the window give none.
LossDetailsAreTheLossSales ==
  report.called =>
    /\ \A d \in Dates :
         LET sales == IF d >= report.from /\ d <= report.to
                      THEN LossSalesOn(Selected(transactions, report.stockId), d)
                      ELSE {}
             o     == CHOOSE f \in OrderedByDateCreated(sales) : TRUE
         IN  LossesReportedOn(d) = [k \in 1..Len(o) |-> LossDetailOf(o[k])]
    /\ \A i \in 1..Len(report.result) : report.result[i].date \in Dates

\* the array returned has a loss detail, and the window holds a sale at a
\* gain, a DIVIDEND and a BUY of the selected stocks as well
LossBesideGain ==
  /\ report.called
  /\ \E i \in 1..Len(report.result) : report.result[i].losses # <<>>
  /\ \E t \in Selected(transactions, report.stockId) :
       /\ t.type = "SELL" /\ t.date >= report.from /\ t.date <= report.to
       /\ ~RealizedBy(transactions, t).neg
  /\ \E t \in Selected(transactions, report.stockId) :
       t.type = "BUY" /\ t.date >= report.from /\ t.date <= report.to

\* the profit of the bucket dated d of the array r, 0 without such a bucket
ProfitOn(r, d) ==
  LET is == {i \in 1..Len(r) : r[i].date = d}
  IN  IF is = {} THEN NZero ELSE r[CHOOSE i \in is : TRUE].profit

\* the sum over the stocks 1..s of the profit their filtered reports give
\* for d in the window from..to
RECURSIVE PerStockProfit(_, _, _, _)
PerStockProfit(s, d, from, to) ==
  IF s = 0 THEN {NZero}
  ELSE {NumberAdd(x, ProfitOn(r, d)) :
          x \in PerStockProfit(s - 1, d, from, to),
          r \in daywise(transactions, from, to, <<s>>)}

\* the profit of a bucket does not depend on the window
BucketIsWindowFree ==
  report.called =>
    \A i \in 1..Len(report.result) :
      LET b == report.result[i]
      IN  \A r \in daywise(transactions, b.date, b.date, report.stockId) :
            ProfitOn(r, b.date) = b.profit

\* C30: the profit of the bucket daywise returns for a date d is its profit
\* in daywise(d, d), and for a query without a stock filter it is the sum of
\* the profits the queries filtered to each stock give for d.
BucketIsWindowAndStockFree ==
  /\ BucketIsWindowFree
  /\ (report.called /\ report.stockId = <<>>) =>
       \A i \in 1..Len(report.result) :
         LET b == report.result[i]
         IN  PerStockProfit(MaxStocks, b.date, report.from, report.to) = {b.profit}

(***************************************************************************)
(* NoteSpec: one registered stock; transactions are added without a note,  *)
(* and updateTransaction is called with the stored type, date, quantity    *)
(* and amount of a transaction and another note.                           *)
(***************************************************************************)
NoteInit ==
  /\ FoldInit /\ TwinIdle /\ ConcIdle /\ BatchIdle /\ ReportIdle
  /\ stocks = {1}
  /\ transactions = {}
  /\ stockAggregates =
       [s \in StockIds |-> IF s = 1 THEN <<AggregateRow(ZeroState)>> ELSE <<>>]
  /\ nextStockId = 2
  /\ nextTxnId = 1
  /\ now = 1
  /\ foldLog = [s \in StockIds |-> <<>>]
  /\ lastCall = <<"createStock", 1, FALSE>>

NoteAddTransaction ==
  /\ nextTxnId <= MaxTxns
  /\ \E input \in TxnInputs, date \in Dates : addTransaction(1, input, date, "")
  /\ UNCHANGED <<foldVars, twinVars, concVars, batchVars, reportVars>>

NoteUpdateTransaction ==
  /\ \E old \in transactions, notes \in NoteInputs :
       /\ old.notes # (IF notes = "" THEN NoNotes ELSE notes)
       /\ updateTransaction(old.id,
            [type |-> old.type, quantity |-> old.quantity,
             totalAmount |-> old.totalAmount], old.date, notes)
  /\ UNCHANGED <<foldVars, twinVars, concVars, batchVars, reportVars>>

NoteNext ==
  \/ NoteAddTransaction
  \/ NoteUpdateTransaction

NoteSpec == NoteInit /\ [][NoteNext]_vars

\* the step is an updateTransaction after which one row differs in its note
\* and has the type, date, quantity and amount it had
NoteOnlyUpdate ==
  /\ lastCall'[1] = "updateTransaction"
  /\ \E old \in transactions, new \in transactions' :
       /\ new.id = old.id
       /\ new.notes # old.notes
       /\ new.type = old.type /\ new.date = old.date
       /\ new.quantity = old.quantity /\ new.totalAmount = old.totalAmount

\* C26: an update that changes only the note of a transaction leaves the
\* persisted aggregate rows as they were, and the sort keys of every row and
\* the order in which the recompute replays the rows as well.
NoteUpdateChangesNothing ==
  [][NoteOnlyUpdate =>
       /\ stockAggregates' = stockAggregates
       /\ foldLog' = foldLog
       /\ \A old \in transactions : \E new \in transactions' :
            new.id = old.id /\ new.date = old.date /\ new.createdAt = old.createdAt]_vars

\* the note of the first of two transactions of one day has been written, the
\* second being a SELL of the shares the first bought
NoteOfFirstRowEdited ==
  /\ lastCall[1] = "updateTransaction"
  /\ \E t, u \in transactions :
       /\ t.notes = "memo" /\ u.notes = NoNotes
       /\ t.date = u.date /\ t.createdAt < u.createdAt
       /\ t.type = "BUY" /\ HasQuantity(t) /\ u.type = "SELL"
  /\ foldLog[1] = <<1, 2>>
  /\ ~isZero(stockAggregates[1][1].realizedProfit)

(***************************************************************************)
(* KelSpec: the KEL example of the README and of accounting.test.ts, BUY   *)
(* 100 for 50000, BUY 50 for 30000, SELL 75 for 52500, DIVIDEND 500, on    *)
(* four days.  The example is folded one transaction at a time; and its    *)
(* transactions are added to the one registered stock in any order of      *)
(* insertion, with daywise queries in between.                             *)
(***************************************************************************)
KelHistory ==
  << [type |-> "BUY", quantity |-> <<100>>, totalAmount |-> 50000, date |-> 1],
     [type |-> "BUY", quantity |-> <<50>>, totalAmount |-> 30000, date |-> 2],
     [type |-> "SELL", quantity |-> <<75>>, totalAmount |-> 52500, date |-> 3],
     [type |-> "DIVIDEND", quantity |-> <<>>, totalAmount |-> 500, date |-> 4] >>

KelDates == 1..Len(KelHistory)

KelInit ==
  /\ FoldInit /\ TwinIdle /\ ConcIdle /\ BatchIdle /\ ReportIdle
  /\ stocks = {1}
  /\ transactions = {}
  /\ stockAggregates =
       [s \in StockIds |-> IF s = 1 THEN <<AggregateRow(ZeroState)>> ELSE <<>>]
  /\ nextStockId = 2
  /\ nextTxnId = 1
  /\ now = 1
  /\ foldLog = [s \in StockIds |-> <<>>]
  /\ lastCall = <<"createStock", 1, FALSE>>

\* state = processTransaction(state, txn) on the next transaction of the example
KelReplayStep ==
  /\ steps < Len(KelHistory)
  /\ LET k == KelHistory[steps + 1]
         t == [type |-> k.type, quantity |-> k.quantity, totalAmount |-> k.totalAmount]
     IN  /\ before' = state
         /\ txn' = t
         /\ state' = processTransaction(state, t)
         /\ hist' = Append(hist, t)
  /\ steps' = steps + 1
  /\ UNCHANGED <<storeVars, twinVars, concVars, batchVars, reportVars>>

\* addTransaction for a transaction of the example that is not stored yet
KelAddTransaction ==
  /\ ~report.called
  /\ \E i \in KelDates :
       /\ \A t \in transactions : t.date # KelHistory[i].date
       /\ addTransaction(1, KelHistory[i], KelHistory[i].date, "")
  /\ UNCHANGED <<foldVars, twinVars, concVars, batchVars, reportVars>>

KelDaywise ==
  /\ ~report.called
  /\ \E from \in KelDates, to \in KelDates, stockId \in {<<>>, <<1>>} :
       \E result \in daywise(transactions, from, to, stockId) :
         report' = [called |-> TRUE, from |-> from, to |-> to,
                    stockId |-> stockId, result |-> result]
  /\ UNCHANGED <<storeVars, foldVars, twinVars, concVars, batchVars>>

KelNext ==
  \/ KelReplayStep
  \/ KelAddTransaction
  \/ KelDaywise
  \/ DaywiseRead

KelSpec == KelInit /\ [][KelNext]_vars

\* C24: folding the KEL example from the zero state gives, step by step,
\* shares/invested/realizedProfit 100/50000/0, 150/80000/0, 75/40000/12500
\* and 75/40000/13000, with the average cost 500 after the first BUY and
\* 80000/150 after each later step.
KelFoldsAsTabulated ==
  LET avg == dividedBy(Dec(80000), Dec(150))
      S(shares, invested, avgCost, profit) ==
        [totalShares |-> Dec(shares), totalInvested |-> Dec(invested),
         avgCost |-> avgCost, realizedProfit |-> Dec(profit)]
  IN  /\ hist = [i \in 1..steps |->
                   [type |-> KelHistory[i].type, quantity |-> KelHistory[i].quantity,
                    totalAmount |-> KelHistory[i].totalAmount]]
        => /\ steps = 1 => state = S(100, 50000, Dec(500), 0)
           /\ steps = 2 => state = S(150, 80000, avg, 0)
           /\ steps = 3 => state = S(75, 40000, avg, 12500)
           /\ steps = 4 => state = S(75, 40000, avg, 13000)

\* the whole example has been folded
KelFolded ==
  /\ steps = 4
  /\ txn.type = "DIVIDEND"
  /\ before.realizedProfit = Dec(12500)
  /\ state.realizedProfit = Dec(13000)

RECURSIVE ProfitTotal(_, _, _)
ProfitTotal(r, i, acc) ==
  IF i > Len(r) THEN acc ELSE ProfitTotal(r, i + 1, NumberAdd(acc, r[i].profit))

\* the query is for one stock and its window holds every transaction of it
CoversStock(s) ==
  /\ report.called
  /\ report.stockId = <<s>>
  /\ \A t \in TxnsOfStock(transactions, s) : report.from <= t.date /\ t.date <= report.to

\* the stockStates entry of stock s at the end of the loop of daywise
ReportStateOf(s) ==
  LET allTxns == CHOOSE o \in OrderedByDateCreated(
                               daywiseRows(transactions, report.to, report.stockId)) : TRUE
  IN  daywiseLoop([stockStates |-> NoStockStates, profitByDate |-> <<>>],
                  allTxns, 1, report.from, report.to).stockStates[s]

\* C23: for a query filtered to one stock over a window that holds all its
\* transactions, the profits of the buckets add up to the realizedProfit of
\* the persisted aggregate row of the stock, and the shares, invested total
\* and average cost of the report replay are those of the ledger replay.
ReportMatchesLedger ==
  \A s \in stocks :
    CoversStock(s) =>
      LET st == Replay(CHOOSE o \in OrderedByDateCreated(TxnsOfStock(transactions, s)) : TRUE)
          rs == ReportStateOf(s)
      IN  /\ ProfitTotal(report.result, 1, NZero) =
               parseFloat(stockAggregates[s][1].realizedProfit)
          /\ rs.totalShares = st.totalShares
          /\ rs.totalInvested = st.totalInvested
          /\ rs.avgCost = st.avgCost

====
